---- MODULE Spec2Model ----
(***************************************************************************)
(* Model of the trace normalisation engine (GenericAdapter, in              *)
(* src/shared/adapters/generic.ts).                                         *)
(*                                                                          *)
(* parse and normalize are pure functions of the uploaded document and the  *)
(* optional FieldMapping.  The document is a JSON value; the state machine  *)
(* draws a document and a mapping from bounded sets, applies parse, then    *)
(* normalize, and records what each call returned (or that it threw).       *)
(***************************************************************************)
EXTENDS Integers, Sequences, FiniteSets, TLC

VARIABLES raw, mapping, pc, result, run, confStep, confOut, analysis, reanalysis, replay

vars == <<raw, mapping, pc, result, run, confStep, confOut, analysis, reanalysis, replay>>

(***************************************************************************)
(* JavaScript values.  Every value is a record tagged with its kind.  An    *)
(* object is a sequence of <<key, value>> pairs so that insertion order,    *)
(* which Object.keys and JSON.stringify observe, is kept.  A number n is    *)
(* held in fixed point, as n * Unit.                                        *)
(***************************************************************************)
Unit == 100 * 100

Undef == [k |-> "undef"]
Null == [k |-> "null"]
NaN == [k |-> "nan"]
Bool(b) == [k |-> "bool", b |-> b]
Num(n) == [k |-> "num", n |-> n]
Whole(i) == Num(i * Unit)
Str(s) == [k |-> "str", s |-> s]
Arr(a) == [k |-> "arr", a |-> a]
Obj(o) == [k |-> "obj", o |-> o]

True == Bool(TRUE)
False == Bool(FALSE)

IsNullish(v) == v.k \in {"undef", "null"}
IsDefined(v) == v.k # "undef"
IsPresent(v) == ~IsNullish(v)
IsObjectType(v) == v.k \in {"obj", "arr", "null"}
IsArray(v) == v.k = "arr"
IsPlainObject(v) == v.k = "obj"

Truthy(v) ==
  CASE v.k = "undef" -> FALSE
    [] v.k = "null" -> FALSE
    [] v.k = "nan" -> FALSE
    [] v.k = "bool" -> v.b
    [] v.k = "num" -> v.n # 0
    [] v.k = "str" -> v.s # ""
    [] OTHER -> TRUE

OrElse(a, b) == IF Truthy(a) THEN a ELSE b

\* Own keys of an object, in insertion order.
Keys(o) == [i \in 1..Len(o.o) |-> o.o[i][1]]

KeySet(o) == {o.o[i][1] : i \in 1..Len(o.o)}

HasKey(o, key) == o.k = "obj" /\ key \in KeySet(o)

\* v[key] for a property name that is not an array index: an object yields
\* its own property, every other non-nullish value yields undefined.
Get(v, key) ==
  IF HasKey(v, key)
    THEN LET i == CHOOSE j \in 1..Len(v.o) : v.o[j][1] = key IN v.o[i][2]
    ELSE Undef

\* { ...o, key: val }
Put(o, key, val) ==
  IF HasKey(o, key)
    THEN Obj([i \in 1..Len(o.o) |-> IF o.o[i][1] = key THEN <<key, val>> ELSE o.o[i]])
    ELSE Obj(Append(o.o, <<key, val>>))

RECURSIVE PutAll(_, _)
PutAll(o, pairs) ==
  IF pairs = <<>> THEN o
  ELSE PutAll(Put(o, Head(pairs)[1], Head(pairs)[2]), Tail(pairs))

\* delete o[key]
Del(o, key) == Obj(SelectSeq(o.o, LAMBDA p : p[1] # key))

RECURSIVE DelAll(_, _)
DelAll(o, keys) ==
  IF keys = <<>> THEN o ELSE DelAll(Del(o, Head(keys)), Tail(keys))

Digit == <<"0", "1", "2", "3", "4", "5", "6", "7", "8", "9">>

RECURSIVE IntStr(_)
IntStr(n) == IF n < 10 THEN Digit[n + 1] ELSE IntStr(n \div 10) \o Digit[(n % 10) + 1]

RECURSIVE FracStr(_, _)
FracStr(f, p) ==
  Digit[(f \div p) + 1] \o (IF f % p = 0 THEN "" ELSE FracStr(f % p, p \div 10))

\* Number.prototype.toString of the fixed-point number n.
NumStr(n) ==
  LET a == IF n < 0 THEN -n ELSE n
      body == IF a % Unit = 0 THEN IntStr(a \div Unit)
              ELSE IntStr(a \div Unit) \o "." \o FracStr(a % Unit, Unit \div 10)
  IN  IF n < 0 THEN "-" \o body ELSE body

RECURSIVE JoinStr(_, _)
JoinStr(strs, sep) ==
  IF strs = <<>> THEN ""
  ELSE IF Len(strs) = 1 THEN strs[1]
  ELSE strs[1] \o sep \o JoinStr(Tail(strs), sep)

\* String(v)
RECURSIVE ToStr(_)
ToStr(v) ==
  CASE v.k = "undef" -> "undefined"
    [] v.k = "null" -> "null"
    [] v.k = "nan" -> "NaN"
    [] v.k = "bool" -> IF v.b THEN "true" ELSE "false"
    [] v.k = "num" -> NumStr(v.n)
    [] v.k = "str" -> v.s
    [] v.k = "arr" -> JoinStr([i \in 1..Len(v.a) |->
                         IF IsNullish(v.a[i]) THEN "" ELSE ToStr(v.a[i])], ",")
    [] OTHER -> "[object Object]"

\* JSON.stringify(v, null, 2) of a defined value; ind is the current indent.
RECURSIVE Stringify(_, _)
Stringify(v, ind) ==
  LET ind2 == ind \o "  " IN
  CASE v.k = "null" -> "null"
    [] v.k = "nan" -> "null"
    [] v.k = "bool" -> IF v.b THEN "true" ELSE "false"
    [] v.k = "num" -> NumStr(v.n)
    [] v.k = "str" -> "\"" \o v.s \o "\""
    [] v.k = "arr" ->
         IF v.a = <<>> THEN "[]"
         ELSE "[\n" \o ind2
              \o JoinStr([i \in 1..Len(v.a) |->
                   IF v.a[i].k = "undef" THEN "null" ELSE Stringify(v.a[i], ind2)],
                   ",\n" \o ind2)
              \o "\n" \o ind \o "]"
    [] v.k = "obj" ->
         LET kept == SelectSeq(v.o, LAMBDA p : p[2].k # "undef") IN
         IF kept = <<>> THEN "{}"
         ELSE "{\n" \o ind2
              \o JoinStr([i \in 1..Len(kept) |->
                   "\"" \o kept[i][1] \o "\": " \o Stringify(kept[i][2], ind2)],
                   ",\n" \o ind2)
              \o "\n" \o ind \o "}"

JSONStringify(v) == Stringify(v, "")

(***************************************************************************)
(* Property access and helpers over arrays.                                 *)
(***************************************************************************)
\* v[key] for any property name: arrays answer their indices and length.
GetProp(v, key) ==
  IF v.k = "arr"
    THEN IF key = "length" THEN Whole(Len(v.a))
         ELSE IF \E i \in 1..Len(v.a) : IntStr(i - 1) = key
           THEN v.a[CHOOSE i \in 1..Len(v.a) : IntStr(i - 1) = key]
           ELSE Undef
    ELSE Get(v, key)

\* { ...v } of an object or an array: an array spreads to its index keys.
Spread(v) ==
  IF v.k = "obj" THEN v
  ELSE IF v.k = "arr" THEN Obj([i \in 1..Len(v.a) |-> <<IntStr(i - 1), v.a[i]>>])
  ELSE Obj(<<>>)

\* Array.prototype.some
Some(a, P(_)) == \E i \in 1..Len(a) : P(a[i])

\* The first truthy value of vals, or the last value (a || b || c).
RECURSIVE FirstTruthy(_)
FirstTruthy(vals) ==
  IF Len(vals) = 1 THEN vals[1]
  ELSE IF Truthy(vals[1]) THEN vals[1] ELSE FirstTruthy(Tail(vals))

\* step[f1] || step[f2] || ...
GetFirstTruthy(v, fields) == FirstTruthy([i \in 1..Len(fields) |-> Get(v, fields[i])])

\* An exception travelling up the call stack.
Throw(msg) == [k |-> "throw", msg |-> msg]

IsThrow(v) == v.k = "throw"

KNOWN_STEP_ARRAY_KEYS ==
  <<"steps", "trace", "events", "messages", "nodes", "intermediate_steps",
    "tool_calls", "runs", "actions", "history", "data", "records", "items",
    "results", "logs", "entries">>

(***************************************************************************)
(* FieldMapping.  Each field is a dot path; NoPath (the empty string, falsy *)
(* like an absent field) stands for a field the mapping does not set.       *)
(***************************************************************************)
NoPath == ""

NoMapping ==
  [stepsPath |-> NoPath, idField |-> NoPath, parentIdField |-> NoPath,
   typeField |-> NoPath, contentField |-> NoPath, timestampField |-> NoPath]

CharAt(s, i) == SubSeq(s, i, i)

\* Least position of the character c in s, or 0
IndexOfChar(s, c) ==
  IF \E i \in 1..Len(s) : CharAt(s, i) = c
    THEN CHOOSE i \in 1..Len(s) : CharAt(s, i) = c /\ \A j \in 1..(i - 1) : CharAt(s, j) # c
    ELSE 0

\* path.split('.')
RECURSIVE SplitDots(_)
SplitDots(path) ==
  LET i == IndexOfChar(path, ".") IN
  IF i = 0 THEN <<path>>
  ELSE <<SubSeq(path, 1, i - 1)>> \o SplitDots(SubSeq(path, i + 1, Len(path)))

WordChars == "abcdefghijklmnopqrstuvwxyzABCDEFGHIJKLMNOPQRSTUVWXYZ0123456789_"

WordCharSet == {CharAt(WordChars, i) : i \in 1..Len(WordChars)}

IsWordChar(c) == c \in WordCharSet

Digits == "0123456789"

DigitSet == {CharAt(Digits, d) : d \in 1..Len(Digits)}

AllDigits(s) == \A i \in 1..Len(s) : CharAt(s, i) \in DigitSet

\* parseInt of a string of digits
RECURSIVE DigitsVal(_)
DigitsVal(s) ==
  IF s = "" THEN 0
  ELSE 10 * DigitsVal(SubSeq(s, 1, Len(s) - 1))
       + (CHOOSE d \in 0..9 : CharAt(Digits, d + 1) = CharAt(s, Len(s)))

\* part.match(/^(\w+)\[(\d+)\]$/): <<name, index digits>>, or <<>> for no match
MatchIndexed(part) ==
  LET open == IndexOfChar(part, "[")
      name == SubSeq(part, 1, open - 1)
      digits == SubSeq(part, open + 1, Len(part) - 1)
  IN  IF /\ open > 1
         /\ CharAt(part, Len(part)) = "]"
         /\ \A i \in 1..Len(name) : IsWordChar(CharAt(name, i))
         /\ digits # "" /\ AllDigits(digits)
        THEN <<name, digits>> ELSE <<>>

\* One step of the traversal: current[part], or current[name]?.[index]
NestedStep(current, part) ==
  LET m == MatchIndexed(part) IN
  IF IndexOfChar(part, "[") # 0 /\ m # <<>>
    THEN LET inner == GetProp(current, m[1]) IN
         IF IsNullish(inner) THEN Undef ELSE GetProp(inner, IntStr(DigitsVal(m[2])))
    ELSE GetProp(current, part)

RECURSIVE WalkPath(_, _)
WalkPath(current, parts) ==
  IF parts = <<>> THEN current
  ELSE IF IsNullish(current) THEN Undef
  ELSE WalkPath(NestedStep(current, Head(parts)), Tail(parts))

getNestedValue(obj, path) == WalkPath(obj, SplitDots(path))

(***************************************************************************)
(* Format detection.                                                        *)
(***************************************************************************)
\* Array.isArray(step) && step.length === 2 && first is an object carrying
\* one of the given marker fields
IsTupleWith(step, markers) ==
  /\ step.k = "arr"
  /\ Len(step.a) = 2
  /\ step.a[1].k \in {"obj", "arr"}
  /\ Truthy(GetFirstTruthy(step.a[1], markers))

IsRecord(step) == step.k = "obj"

detectArrayFormat(steps) ==
  IF steps.k # "arr" \/ steps.a = <<>> THEN "array"
  ELSE
    LET recs == SelectSeq(steps.a, IsRecord)
        hasTuples == Some(steps.a, LAMBDA s : IsTupleWith(s, <<"tool", "action", "log">>))
        IsAction(s) == IsDefined(Get(s, "action")) /\ Get(s, "action").k = "str"
        actionCount == Len(SelectSeq(recs, IsAction))
        observationCount == Len(SelectSeq(recs, LAMBDA s : IsDefined(Get(s, "observation"))))
        hasLangChainSchema ==
          \/ Some(recs, LAMBDA s : IsAction(s) /\ IsDefined(Get(s, "tool_input")))
          \/ observationCount > 0
        hasLangGraphSchema ==
          Some(recs, LAMBDA s : \/ IsDefined(Get(s, "node"))
                                \/ IsDefined(Get(s, "graph_id"))
                                \/ IsDefined(Get(s, "langgraph_node"))
                                \/ IsDefined(Get(s, "checkpoint")))
    IN  IF hasTuples THEN "langchain"
        ELSE IF hasLangChainSchema /\ actionCount > 0 /\ observationCount > 0 THEN "langchain"
        ELSE IF hasLangGraphSchema THEN "langgraph"
        ELSE IF actionCount > 0 /\ observationCount > 0 THEN "langchain"
        ELSE "array"

isLangGraphFormat(r) ==
  IF r.k \notin {"obj", "arr"} THEN FALSE
  ELSE IF IsDefined(Get(r, "langgraph_version")) THEN TRUE
  ELSE IF IsDefined(Get(r, "graph_id")) THEN TRUE
  ELSE IF IsDefined(Get(r, "thread_id")) /\ IsDefined(Get(r, "checkpoint")) THEN TRUE
  ELSE LET events == GetFirstTruthy(r, <<"events", "messages", "runs">>) IN
       /\ events.k = "arr"
       /\ Len(events.a) > 0
       /\ Some(events.a, LAMBDA e : \/ IsDefined(Get(e, "node"))
                                    \/ IsDefined(Get(e, "langgraph_node"))
                                    \/ IsDefined(Get(e, "graph_id"))
                                    \/ IsDefined(Get(e, "checkpoint")))

isLangChainFormat(r) ==
  IF r.k \notin {"obj", "arr"} THEN FALSE
  ELSE IF IsDefined(Get(r, "langchain_version")) THEN TRUE
  ELSE IF IsDefined(Get(r, "lc_id")) THEN TRUE
  ELSE IF Get(r, "intermediate_steps").k = "arr" /\ Len(Get(r, "intermediate_steps").a) > 0
    THEN TRUE
  ELSE IF /\ Get(r, "steps").k = "arr"
          /\ Some(Get(r, "steps").a, LAMBDA s :
               \/ IsDefined(Get(s, "action")) /\ IsDefined(Get(s, "tool_input"))
               \/ IsDefined(Get(s, "observation"))
               \/ IsDefined(Get(s, "thought")) /\ IsDefined(Get(s, "action")))
    THEN TRUE
  ELSE IF /\ IsDefined(Get(r, "output"))
          /\ (IsDefined(Get(r, "intermediate_steps")) \/ IsDefined(Get(r, "steps")))
    THEN TRUE
  ELSE IF r.k = "arr" THEN detectArrayFormat(r) = "langchain"
  ELSE FALSE

\* s.startsWith(prefix)
StartsWith(s, prefix) ==
  Len(s) >= Len(prefix) /\ SubSeq(s, 1, Len(prefix)) = prefix

\* s.includes(w)
Includes(s, w) ==
  \E i \in 1..(Len(s) - Len(w) + 1) : SubSeq(s, i, i + Len(w) - 1) = w

UpperCase == "ABCDEFGHIJKLMNOPQRSTUVWXYZ"

LowerCase == "abcdefghijklmnopqrstuvwxyz"

\* The lower-case letter of each upper-case letter
LowerOf == [c \in {CharAt(UpperCase, i) : i \in 1..Len(UpperCase)} |->
             CharAt(LowerCase, CHOOSE i \in 1..Len(UpperCase) : CharAt(UpperCase, i) = c)]

LowerChar(c) == IF c \in DOMAIN LowerOf THEN LowerOf[c] ELSE c

\* s.toLowerCase(), by halves
RECURSIVE ToLower(_)
ToLower(s) ==
  IF s = "" THEN ""
  ELSE IF Len(s) = 1 THEN LowerChar(s)
  ELSE ToLower(SubSeq(s, 1, Len(s) \div 2)) \o ToLower(SubSeq(s, Len(s) \div 2 + 1, Len(s)))

\* raw.model?.startsWith('gpt'): true, false, or a TypeError when model is
\* neither nullish nor a string (startsWith is then not a function).
ModelStartsWith(r, prefix) ==
  LET m == Get(r, "model") IN
  IF IsNullish(m) THEN False
  ELSE IF m.k = "str" THEN Bool(StartsWith(m.s, prefix))
  ELSE Throw("raw.model?.startsWith is not a function")

\* true, false or a thrown TypeError
isOpenAIFormat(r) ==
  IF r.k \notin {"obj", "arr"} THEN False
  ELSE IF IsDefined(Get(r, "choices")) THEN True
  ELSE LET sw == ModelStartsWith(r, "gpt") IN
       IF IsThrow(sw) THEN sw
       ELSE IF sw.b THEN True
       ELSE Bool(/\ Get(r, "tool_calls").k = "arr"
                 /\ Len(Get(r, "tool_calls").a) > 0
                 /\ Some(Get(r, "tool_calls").a, LAMBDA tc :
                      IsDefined(Get(tc, "id")) /\ IsDefined(Get(tc, "function"))))

\* The dialect tag (a string value), or a thrown TypeError
detectFormatStrict(r) ==
  IF isLangGraphFormat(r) THEN Str("langgraph")
  ELSE IF isLangChainFormat(r) THEN Str("langchain")
  ELSE LET oa == isOpenAIFormat(r) IN
       IF IsThrow(oa) THEN oa
       ELSE IF oa.b THEN Str("openai")
       ELSE IF r.k = "arr" THEN Str(detectArrayFormat(r))
       ELSE Str("generic")

(***************************************************************************)
(* Step array location.                                                     *)
(***************************************************************************)
\* Least index of seq whose element satisfies P, or 0
FirstIdx(seq, P(_)) ==
  IF \E i \in 1..Len(seq) : P(seq[i])
    THEN CHOOSE i \in 1..Len(seq) : P(seq[i]) /\ \A j \in 1..(i - 1) : ~P(seq[j])
    ELSE 0

RECURSIVE Flatten(_)
Flatten(seqs) == IF seqs = <<>> THEN <<>> ELSE Head(seqs) \o Flatten(Tail(seqs))

NonEmptyArray(v) == v.k = "arr" /\ Len(v.a) > 0

Located(steps, path) == [steps |-> steps, arrayPath |-> Str(path)]

NotLocated == [steps |-> Null, arrayPath |-> Undef]

RECURSIVE findAllArrays(_, _, _)
findAllArrays(obj, path, maxDepth) ==
  IF maxDepth <= 0 THEN <<>>
  ELSE IF obj.k \notin {"obj", "arr"} THEN <<>>
  ELSE LET o == Spread(obj)
           One(p) ==
             LET currentPath == IF path # "" THEN path \o "." \o p[1] ELSE p[1] IN
             IF p[2].k = "arr" THEN << [path |-> currentPath, items |-> p[2]] >>
             ELSE IF p[2].k = "obj" THEN findAllArrays(p[2], currentPath, maxDepth - 1)
             ELSE <<>>
       IN  Flatten([i \in 1..Len(o.o) |-> One(o.o[i])])

\* sorted[0] after the stable sort by descending length: the first of the
\* longest arrays
LongestFirst(arrays) ==
  arrays[FirstIdx(arrays, LAMBDA x :
           \A j \in 1..Len(arrays) : Len(arrays[j].items.a) <= Len(x.items.a))]

FormatKeys(format) ==
  CASE format = "langchain" -> <<"intermediate_steps", "steps">>
    [] format = "langgraph" -> <<"events", "messages", "runs">>
    [] format = "openai" -> <<"tool_calls", "messages">>
    [] OTHER -> <<>>

StepLikeKey(key) ==
  \/ Includes(ToLower(key), "step")
  \/ Includes(ToLower(key), "trace")
  \/ Includes(ToLower(key), "event")
  \/ Includes(ToLower(key), "message")

findStepArrayForFormat(r, format, customPath) ==
  LET customSteps == getNestedValue(r, customPath)
      fkeys == FormatKeys(format)
      fk == FirstIdx(fkeys, LAMBDA key : NonEmptyArray(Get(r, key)))
      kk == FirstIdx(KNOWN_STEP_ARRAY_KEYS, LAMBDA key : NonEmptyArray(Get(r, key)))
      rkeys == Keys(r)
      sk == FirstIdx(rkeys, LAMBDA key : StepLikeKey(key) /\ NonEmptyArray(Get(r, key)))
      NestedHit(key, outerKey) ==
        LET nested == Get(r, outerKey) IN
        Truthy(nested) /\ nested.k \in {"obj", "arr"} /\ Get(nested, key).k = "arr"
      nk == FirstIdx(KNOWN_STEP_ARRAY_KEYS, LAMBDA key :
              \E i \in 1..Len(rkeys) : NestedHit(key, rkeys[i]))
      allArrays == findAllArrays(r, "", 3)
  IN
  IF customPath # NoPath /\ customSteps.k = "arr"
    THEN Located(customSteps, customPath)
  ELSE IF r.k = "arr" THEN Located(r, "root")
  ELSE IF r.k # "obj" THEN NotLocated
  ELSE IF fk # 0 THEN Located(Get(r, fkeys[fk]), fkeys[fk])
  ELSE IF kk # 0 THEN Located(Get(r, KNOWN_STEP_ARRAY_KEYS[kk]), KNOWN_STEP_ARRAY_KEYS[kk])
  ELSE IF sk # 0 THEN Located(Get(r, rkeys[sk]), rkeys[sk])
  ELSE IF nk # 0
    THEN LET key == KNOWN_STEP_ARRAY_KEYS[nk]
             ok == FirstIdx(rkeys, LAMBDA outerKey : NestedHit(key, outerKey))
         IN  Located(Get(Get(r, rkeys[ok]), key), rkeys[ok] \o "." \o key)
  ELSE IF allArrays # <<>>
    THEN LET best == LongestFirst(allArrays) IN
         IF Len(best.items.a) > 0 /\ best.items.a[1].k \in {"obj", "arr", "null"}
           THEN Located(best.items, best.path)
           ELSE NotLocated
  ELSE NotLocated

(***************************************************************************)
(* Step expansion.  An expanded step is always an object.                   *)
(***************************************************************************)
\* `${a}${sep}${b}` with b a string, or JSON.stringify(b, null, 2) otherwise
ToolLine(toolName, toolInput) ==
  IF toolInput.k = "str"
    THEN Str(ToStr(toolName) \o ": " \o toolInput.s)
    ELSE Str(ToStr(toolName) \o "\n" \o JSONStringify(toolInput))

\* typeof v === 'string' ? v : (v === null || v === undefined) ? '[No result]'
\*   : JSON.stringify(v, null, 2)
ResultText(v) ==
  IF v.k = "str" THEN v
  ELSE IF IsNullish(v) THEN Str("[No result]")
  ELSE Str(JSONStringify(v))

\* typeof v === 'string' ? v : JSON.stringify(v, null, 2)
TextOrJSON(v) == IF v.k = "str" THEN v ELSE Str(JSONStringify(v))

detectLangChainFormat(steps) ==
  IF steps.k # "arr" \/ steps.a = <<>> THEN FALSE
  ELSE LET recs == SelectSeq(steps.a, IsRecord) IN
       /\ Some(recs, LAMBDA s :
            /\ IsDefined(Get(s, "action"))
            /\ (IsDefined(Get(s, "tool_input")) \/ Get(s, "action").k = "str"))
       /\ Some(recs, LAMBDA s : IsDefined(Get(s, "observation")))

\* The two entries pushed for a tuple [first, second] at index i
ExpandTuple(step, i, g) ==
  LET first == step.a[1]
      second == step.a[2]
      actionId == "step-" \o IntStr(i) \o "-action"
      obsId == "step-" \o IntStr(i) \o "-observation"
      toolName == FirstTruthy(<<Get(first, "tool"), Get(first, "action"),
                                Get(first, "name"), Str("tool")>>)
      toolInput == FirstTruthy(<<Get(first, "tool_input"), Get(first, "input"),
                                 Get(first, "args"), Str("")>>)
      actionContent == OrElse(Get(first, "log"), ToolLine(toolName, toolInput))
  IN  << PutAll(Spread(first),
           << <<"id", Str(actionId)>>, <<"content", actionContent>>,
              <<"type", Str("action")>>, <<"_originalIndex", Whole(i)>>,
              <<"_tupleIndex", Whole(0)>>, <<"_globalIndex", Whole(g)>>,
              <<"_linkedObservationId", Str(obsId)>> >>),
         Obj(<< <<"id", Str(obsId)>>, <<"content", ResultText(second)>>,
                <<"type", Str("observation")>>, <<"_originalIndex", Whole(i)>>,
                <<"_tupleIndex", Whole(1)>>, <<"_globalIndex", Whole(g + 1)>>,
                <<"_linkedActionId", Str(actionId)>> >>) >>

\* The node for a LangChain record, or null
extractLangChainNode(step, originalIndex) ==
  LET action == Get(step, "action")
      idOf(suffix) == Str("step-" \o IntStr(originalIndex) \o "-" \o suffix)
  IN
  IF IsDefined(action)
    THEN LET toolName == IF action.k = "str" THEN action
                         ELSE FirstTruthy(<<Get(action, "tool"), Get(action, "name"),
                                            Str("tool")>>)
             toolInput == FirstTruthy(<<Get(step, "tool_input"), Get(step, "input"),
                                        Get(step, "args"), Obj(<<>>)>>)
         IN  PutAll(Spread(step),
               << <<"id", idOf("action")>>, <<"content", ToolLine(toolName, toolInput)>>,
                  <<"type", Str("action")>>, <<"_originalIndex", Whole(originalIndex)>>,
                  <<"_langChainAction", True>>, <<"tool", toolName>>,
                  <<"tool_input", toolInput>> >>)
  ELSE IF IsDefined(Get(step, "observation"))
    THEN PutAll(Spread(step),
           << <<"id", idOf("observation")>>,
              <<"content", ResultText(Get(step, "observation"))>>,
              <<"type", Str("observation")>>, <<"_originalIndex", Whole(originalIndex)>>,
              <<"_langChainObservation", True>> >>)
  ELSE IF \/ IsDefined(Get(step, "thought")) \/ IsDefined(Get(step, "thinking"))
          \/ IsDefined(Get(step, "reasoning"))
    THEN PutAll(Spread(step),
           << <<"id", idOf("thought")>>,
              <<"content", TextOrJSON(GetFirstTruthy(step, <<"thought", "thinking", "reasoning">>))>>,
              <<"type", Str("thought")>>, <<"_originalIndex", Whole(originalIndex)>> >>)
  ELSE IF IsDefined(Get(step, "output")) \/ IsDefined(Get(step, "final_answer"))
    THEN PutAll(Spread(step),
           << <<"id", idOf("output")>>,
              <<"content", TextOrJSON(GetFirstTruthy(step, <<"output", "final_answer">>))>>,
              <<"type", Str("output")>>, <<"_originalIndex", Whole(originalIndex)>> >>)
  ELSE Null

knownSubKeys ==
  <<"thought", "action", "observation", "output", "final_answer", "result",
    "tool_call", "tool_result">>

\* The sub-step made for one present sub-key
SubStepFor(step, key, originalIndex) ==
  LET value == Get(step, key)
      base == Obj(<< <<"_originalKey", Str(key)>>, <<"_originalIndex", Whole(originalIndex)>> >>)
      assigned == PutAll(base, value.o)
      withContent ==
        IF value.k = "obj"
          THEN IF ~Truthy(Get(assigned, "content"))
                 THEN Put(assigned, "content",
                          GetFirstTruthy(value, <<"tool_input", "input", "text", "content">>))
                 ELSE assigned
          ELSE Put(base, "content", TextOrJSON(value))
      withParent == IF Truthy(Get(step, "id"))
                      THEN Put(withContent, "_parentStepId", Get(step, "id"))
                      ELSE withContent
  IN  IF Truthy(Get(step, "timestamp"))
        THEN Put(withParent, "timestamp", Get(step, "timestamp"))
        ELSE withParent

extractSubSteps(step, originalIndex) ==
  LET present == SelectSeq(knownSubKeys, LAMBDA key : IsDefined(Get(step, key)))
  IN  [j \in 1..Len(present) |-> SubStepFor(step, present[j], originalIndex)]

\* Give the entries consecutive _globalIndex values from g on
NumberFrom(subSteps, g) ==
  [j \in 1..Len(subSteps) |-> Put(subSteps[j], "_globalIndex", Whole(g + j - 1))]

\* The entries one element of the step array contributes; g is globalIndex,
\* which always equals the number of entries pushed so far.
ExpandOne(step, i, g, isLangChain) ==
  IF step.k = "str"
    THEN << Obj(<< <<"content", step>>, <<"_originalIndex", Whole(i)>>,
                   <<"_globalIndex", Whole(g)>> >>) >>
  ELSE IF step.k \notin {"obj", "arr"}
    THEN << Obj(<< <<"content", Str(ToStr(step))>>, <<"_originalIndex", Whole(i)>>,
                   <<"_globalIndex", Whole(g)>> >>) >>
  ELSE IF IsTupleWith(step, <<"tool", "action", "name", "log">>)
    THEN ExpandTuple(step, i, g)
  ELSE IF isLangChain /\ extractLangChainNode(step, i) # Null
    THEN << Put(extractLangChainNode(step, i), "_globalIndex", Whole(g)) >>
  ELSE IF extractSubSteps(step, i) # <<>>
    THEN NumberFrom(extractSubSteps(step, i), g)
  ELSE << PutAll(Spread(step), << <<"_originalIndex", Whole(i)>>,
                                  <<"_globalIndex", Whole(g)>> >>) >>

RECURSIVE ExpandFrom(_, _, _, _)
ExpandFrom(steps, i, expanded, isLangChain) ==
  IF i > Len(steps) THEN expanded
  ELSE ExpandFrom(steps, i + 1,
         expanded \o ExpandOne(steps[i], i - 1, Len(expanded), isLangChain),
         isLangChain)

\* One pass of the linking loop at position i (1-based), then the rest
RECURSIVE linkLangChainNodes(_, _)
linkLangChainNodes(expanded, i) ==
  IF i >= Len(expanded) THEN expanded
  ELSE LET current == expanded[i]
           next == expanded[i + 1]
       IN  IF Truthy(Get(current, "_langChainAction")) /\ Truthy(Get(next, "_langChainObservation"))
             THEN linkLangChainNodes(
                    [expanded EXCEPT ![i] = Put(current, "_linkedObservationId", Get(next, "id")),
                                     ![i + 1] = Put(next, "_linkedActionId", Get(current, "id"))],
                    i + 1)
             ELSE linkLangChainNodes(expanded, i + 1)

\* expandSteps(steps, mapping): the mapping is not consulted
expandSteps(steps, map) ==
  LET isLangChain == detectLangChainFormat(steps)
      expanded == ExpandFrom(steps.a, 1, <<>>, isLangChain)
  IN  IF isLangChain THEN linkLangChainNodes(expanded, 1) ELSE expanded

(***************************************************************************)
(* The regular expressions of detectType, over lower-cased content.  A      *)
(* pattern alternative is a sequence of tokens: a literal, or a run of      *)
(* white space of a least length (\s+ is WS(1), \s* is WS(0)).  The        *)
(* analyzer's patterns also use a group of alternative literals, where the  *)
(* empty literal makes the group optional, and runs of digits (\d{n} is     *)
(* DigitRun(n, n), \d+ is OneOrMoreDigits).                                 *)
(***************************************************************************)
Lit(w) == [t |-> "lit", w |-> w]

WS(min) == [t |-> "ws", min |-> min]

Alt(ws) == [t |-> "alt", ws |-> ws]

DigitRun(min, max) == [t |-> "digits", min |-> min, max |-> max, open |-> FALSE]

OneOrMoreDigits == [t |-> "digits", min |-> 1, max |-> 1, open |-> TRUE]

\* x? for a literal x
Maybe(w) == Alt({w, ""})

IsSpace(c) == c \in {" ", "\n", "\t", "\r"}

\* The positions just after a match of toks that starts at pos
RECURSIVE MatchEnds(_, _, _)
MatchEnds(s, pos, toks) ==
  IF toks = <<>> THEN {pos}
  ELSE LET tok == Head(toks) IN
       IF tok.t = "lit"
         THEN IF pos + Len(tok.w) - 1 <= Len(s) /\ SubSeq(s, pos, pos + Len(tok.w) - 1) = tok.w
                THEN MatchEnds(s, pos + Len(tok.w), Tail(toks))
                ELSE {}
       ELSE IF tok.t = "alt"
         THEN UNION { MatchEnds(s, pos, <<Lit(w)>> \o Tail(toks)) : w \in tok.ws }
       ELSE IF tok.t = "digits"
         THEN UNION { MatchEnds(s, q, Tail(toks)) :
                      q \in { q \in (pos + tok.min)..(Len(s) + 1) :
                              /\ (tok.open \/ q - pos <= tok.max)
                              /\ AllDigits(SubSeq(s, pos, q - 1)) } }
         ELSE UNION { MatchEnds(s, q, Tail(toks)) :
                      q \in { q \in (pos + tok.min)..(Len(s) + 1) :
                              \A j \in pos..(q - 1) : IsSpace(CharAt(s, j)) } }

\* \b before position i / \b at position e (just after a match); the
\* alternatives begin and end with word characters
BoundaryBefore(s, i) == i = 1 \/ ~IsWordChar(CharAt(s, i - 1))

BoundaryAfter(s, e) == e > Len(s) \/ ~IsWordChar(CharAt(s, e))

\* /\b(alt1|alt2|...)\b/
MatchesWord(s, alts) ==
  \E i \in 1..Len(s) : \E a \in 1..Len(alts) :
    /\ BoundaryBefore(s, i)
    /\ \E e \in MatchEnds(s, i, alts[a]) : BoundaryAfter(s, e)

\* /\b(alt1|alt2|...)\s+\w+/
MatchesWordThenWord(s, alts) ==
  \E i \in 1..Len(s) : \E a \in 1..Len(alts) :
    /\ BoundaryBefore(s, i)
    /\ \E e \in MatchEnds(s, i, alts[a] \o <<WS(1)>>) :
         e <= Len(s) /\ IsWordChar(CharAt(s, e))

\* /\b(alt1|alt2|...)\s*:/
MatchesWordThenColon(s, alts) ==
  \E i \in 1..Len(s) : \E a \in 1..Len(alts) :
    /\ BoundaryBefore(s, i)
    /\ MatchEnds(s, i, alts[a] \o <<WS(0), Lit(":")>>) # {}

Words(ws) == [i \in 1..Len(ws) |-> <<Lit(ws[i])>>]

\* w1\s+w2\s+...
Phrase(ws) ==
  [i \in 1..(2 * Len(ws) - 1) |-> IF i % 2 = 1 THEN Lit(ws[(i + 1) \div 2]) ELSE WS(1)]

ErrorWords ==
  Words(<<"error", "failed", "exception", "traceback">>)
    \o << <<Lit("stack"), WS(0), Lit("trace")>> >>

ActionWords ==
  Words(<<"calling", "executing", "running", "invoking", "fetching", "searching", "querying">>)

ObservationWords ==
  Words(<<"returned", "received", "got", "found", "result", "response">>)

OutputWords ==
  << Phrase(<<"final", "answer">>), Phrase(<<"in", "conclusion">>), <<Lit("therefore")>>,
     Phrase(<<"the", "answer", "is">>), Phrase(<<"here", "is", "the">>),
     Phrase(<<"here", "are", "the">>) >>

ThoughtWords ==
  << Phrase(<<"i", "need", "to">>), Phrase(<<"let", "me">>), Phrase(<<"i", "will">>) >>
    \o Words(<<"i'll", "thinking", "planning", "considering", "analyzing">>)

FinalOutputWords ==
  Words(<<"final", "answer", "conclusion", "result">>)
    \o << Phrase(<<"here", "is">>), Phrase(<<"here", "are">>) >>

(***************************************************************************)
(* Node type detection.                                                     *)
(***************************************************************************)
CanonicalTypes == {"thought", "action", "observation", "output", "system"}

typeMap ==
  << <<"thought", "thought">>, <<"thinking", "thought">>, <<"reasoning", "thought">>,
     <<"plan", "thought">>, <<"planning", "thought">>, <<"chain_of_thought", "thought">>,
     <<"cot", "thought">>,
     <<"action", "action">>, <<"tool", "action">>, <<"tool_call", "action">>,
     <<"function", "action">>, <<"function_call", "action">>, <<"execute", "action">>,
     <<"call", "action">>, <<"invoke", "action">>,
     <<"observation", "observation">>, <<"result", "observation">>,
     <<"response", "observation">>, <<"tool_result", "observation">>,
     <<"function_result", "observation">>, <<"return", "observation">>,
     <<"output", "observation">>,
     <<"final", "output">>, <<"final_answer", "output">>, <<"answer", "output">>,
     <<"completion", "output">>, <<"finish", "output">>, <<"done", "output">>,
     <<"end", "output">>,
     <<"system", "system">>, <<"log", "system">>, <<"debug", "system">>,
     <<"internal", "system">>, <<"error", "system">>, <<"warning", "system">>,
     <<"ai_message", "thought">>, <<"human_message", "other">>, <<"ai", "thought">>,
     <<"human", "other">>, <<"user", "other">>, <<"assistant", "thought">> >>

normalizeType(typeStr) ==
  LET i == FirstIdx(typeMap, LAMBDA e : e[1] = typeStr)
  IN  IF i = 0 THEN "other" ELSE typeMap[i][2]

\* Priorities 5 to 10 of detectType
DetectTypeBuiltIn(step) ==
  LET role == Get(step, "role")
      type == Get(step, "type")
      content == ToLower(ToStr(FirstTruthy(<<Get(step, "content"), Get(step, "text"),
                                             Get(step, "message"), Str("")>>)))
      output == Get(step, "output")
      typeFields == <<"kind", "nodeType", "node_type", "step_type", "event_type", "category">>
      tf == FirstIdx(typeFields, LAMBDA f :
              /\ Truthy(Get(step, f))
              /\ normalizeType(ToLower(ToStr(Get(step, f)))) # "other")
  IN
  IF role = Str("tool") \/ role = Str("function") THEN "observation"
  ELSE IF role = Str("system") THEN "system"
  ELSE IF Truthy(Get(step, "tool_call_id")) /\ IsDefined(Get(step, "content"))
    THEN "observation"
  ELSE IF IsPresent(type) /\ normalizeType(ToLower(ToStr(type))) # "other"
    THEN normalizeType(ToLower(ToStr(type)))
  ELSE IF IsDefined(Get(step, "action")) /\ IsDefined(Get(step, "tool_input"))
    THEN "action"
  ELSE IF Truthy(GetFirstTruthy(step, <<"tool", "tool_name", "function_call", "function",
                                        "tool_calls">>))
    THEN "action"
  ELSE IF IsDefined(Get(step, "observation")) THEN "observation"
  ELSE IF \/ IsDefined(Get(step, "result")) \/ IsDefined(Get(step, "response"))
          \/ IsDefined(Get(step, "tool_output")) \/ IsDefined(Get(step, "return_value"))
    THEN "observation"
  ELSE IF \/ IsDefined(Get(step, "final_answer")) \/ IsDefined(Get(step, "answer"))
          \/ IsDefined(Get(step, "completion")) \/ IsDefined(Get(step, "output_text"))
          \/ Get(step, "is_final") = True \/ Get(step, "finished") = True
    THEN "output"
  ELSE IF /\ IsDefined(output) /\ IsDefined(Get(step, "_originalIndex"))
          /\ MatchesWord(ToLower(ToStr(OrElse(output, Str("")))), FinalOutputWords)
    THEN "output"
  ELSE IF /\ IsDefined(output) /\ IsDefined(Get(step, "_originalIndex"))
          /\ output.k \in {"obj", "arr"}
    THEN "observation"
  ELSE IF role = Str("assistant")
    THEN IF Truthy(Get(step, "tool_calls")) \/ Truthy(Get(step, "function_call"))
           THEN "action" ELSE "thought"
  ELSE IF tf # 0 THEN normalizeType(ToLower(ToStr(Get(step, typeFields[tf]))))
  ELSE IF MatchesWord(content, ErrorWords) THEN "system"
  ELSE IF MatchesWordThenWord(content, ActionWords) THEN "action"
  ELSE IF MatchesWordThenColon(content, ObservationWords) THEN "observation"
  ELSE IF MatchesWord(content, OutputWords) THEN "output"
  ELSE IF MatchesWord(content, ThoughtWords) THEN "thought"
  ELSE "other"

\* Priority 4: the node type named by _originalKey, "" when it names none,
\* or a thrown TypeError when _originalKey is truthy but not a string
OriginalKeyType(step) ==
  LET ok == Get(step, "_originalKey") IN
  IF ~Truthy(ok) THEN Str("")
  ELSE IF ok.k # "str" THEN Throw("step._originalKey.toLowerCase is not a function")
  ELSE LET key == ToLower(ok.s) IN
       IF key \in {"thought", "thinking", "reasoning"} THEN Str("thought")
       ELSE IF key \in {"action", "tool_call"} THEN Str("action")
       ELSE IF key \in {"observation", "result", "tool_result"} THEN Str("observation")
       ELSE IF key \in {"output", "final_answer", "answer"} THEN Str("output")
       ELSE Str("")

\* The custom type of priority 2, "other" when the mapping names none
CustomType(step, map) ==
  LET customType == getNestedValue(step, map.typeField) IN
  IF map.typeField # NoPath /\ Truthy(customType)
    THEN normalizeType(ToLower(ToStr(customType)))
    ELSE "other"

\* The node type as a string value, or a thrown TypeError
detectType(step, map) ==
  LET type == Get(step, "type") IN
  IF type.k = "str" /\ type.s \in CanonicalTypes THEN type
  ELSE IF CustomType(step, map) # "other" THEN Str(CustomType(step, map))
  ELSE IF Truthy(Get(step, "_langChainAction")) THEN Str("action")
  ELSE IF Truthy(Get(step, "_langChainObservation")) THEN Str("observation")
  ELSE LET kt == OriginalKeyType(step) IN
       IF IsThrow(kt) THEN kt
       ELSE IF kt.s # "" THEN kt
       ELSE Str(DetectTypeBuiltIn(step))

(***************************************************************************)
(* Field extractors.                                                        *)
(***************************************************************************)
idFields ==
  <<"id", "step_id", "node_id", "nodeId", "uuid", "event_id", "eventId",
    "message_id", "run_id">>

\* The node id (a string)
extractId(step, index, map) ==
  LET customId == getNestedValue(step, map.idField)
      f == FirstIdx(idFields, LAMBDA field : IsPresent(Get(step, field)))
      tupleIndex == Get(step, "_tupleIndex")
      originalKey == Get(step, "_originalKey")
      suffix == IF IsDefined(tupleIndex) THEN "-" \o ToStr(tupleIndex)
                ELSE IF Truthy(originalKey) THEN "-" \o ToStr(originalKey)
                ELSE ""
  IN
  IF map.idField # NoPath /\ IsPresent(customId) THEN ToStr(customId)
  ELSE IF f # 0
    THEN LET baseId == ToStr(Get(step, idFields[f])) IN
         IF IsDefined(tupleIndex) THEN baseId \o "-" \o ToStr(tupleIndex)
         ELSE IF Truthy(originalKey) THEN baseId \o "-" \o ToStr(originalKey)
         ELSE baseId
  ELSE "step-" \o IntStr(index) \o suffix

formatContent(value) ==
  IF IsNullish(value) THEN ""
  ELSE IF value.k = "str" THEN value.s
  ELSE IF value.k \in {"num", "bool"} THEN ToStr(value)
  ELSE IF value.k = "arr" /\ value.a = <<>> THEN "[]"
  ELSE IF value.k = "arr" /\ \A i \in 1..Len(value.a) : value.a[i].k = "str"
    THEN JoinStr([i \in 1..Len(value.a) |-> value.a[i].s], "\n")
  ELSE JSONStringify(value)

contentFields ==
  <<"content", "text", "message", "prompt", "tool_input", "input", "args", "arguments",
    "observation", "result", "response", "output", "tool_output", "return_value",
    "data", "value", "answer", "final_answer", "completion">>

metaKeys ==
  <<"type", "id", "timestamp", "metadata", "_originalKey", "_originalIndex",
    "_tupleIndex", "_parentStepId", "order", "parentId", "parent_id", "parent",
    "tool", "name", "function", "tool_name", "role", "source">>

EmptyStep == "[Empty step]"

\* The node content: a string, except that a step with a tool name and
\* neither content nor arguments yields the tool name as it is
extractContent(step, map) ==
  LET customContent == getNestedValue(step, map.contentField)
      f == FirstIdx(contentFields, LAMBDA field :
             IsPresent(Get(step, field)) /\ Get(step, field) # Str(""))
      toolName == GetFirstTruthy(step, <<"tool", "name", "function", "tool_name">>)
      args == GetFirstTruthy(step, <<"tool_input", "input", "args", "arguments">>)
      stepCopy == DelAll(step, metaKeys)
  IN
  IF map.contentField # NoPath /\ IsPresent(customContent)
    THEN Str(formatContent(customContent))
  ELSE IF f # 0
    THEN IF Truthy(toolName)
           THEN Str(ToStr(toolName) \o "\n" \o formatContent(Get(step, contentFields[f])))
           ELSE Str(formatContent(Get(step, contentFields[f])))
  ELSE IF Truthy(toolName)
    THEN IF Truthy(args) THEN Str(ToStr(toolName) \o "\n" \o formatContent(args))
         ELSE toolName
  ELSE IF Len(stepCopy.o) > 0
    THEN IF Len(stepCopy.o) = 1 /\ stepCopy.o[1][2].k \notin {"obj", "arr"}
           THEN Str(ToStr(stepCopy.o[1][2]))
           ELSE Str(JSONStringify(stepCopy))
  ELSE Str(EmptyStep)

\* Number(s) of a string: a signed decimal literal, the empty string (0) or
\* NaN.  Fraction digits beyond the fixed-point resolution are dropped.
StrToNumber(s) ==
  LET neg == StartsWith(s, "-")
      body == IF neg THEN SubSeq(s, 2, Len(s)) ELSE s
      dot == FirstIdx([i \in 1..Len(body) |-> CharAt(body, i)], LAMBDA c : c = ".")
      ip == IF dot = 0 THEN body ELSE SubSeq(body, 1, dot - 1)
      fp == IF dot = 0 THEN "" ELSE SubSeq(body, dot + 1, Len(body))
      val == DigitsVal(ip) * Unit + DigitsVal(SubSeq(fp \o "0000", 1, 4))
  IN  IF s = "" THEN Num(0)
      ELSE IF ~AllDigits(ip) \/ ~AllDigits(fp) \/ (ip = "" /\ fp = "") THEN NaN
      ELSE Num(IF neg THEN -val ELSE val)

\* Number(v)
ToNumber(v) ==
  CASE v.k = "num" -> v
    [] v.k = "null" -> Num(0)
    [] v.k = "bool" -> IF v.b THEN Whole(1) ELSE Num(0)
    [] v.k = "str" -> StrToNumber(v.s)
    [] v.k = "arr" -> StrToNumber(ToStr(v))
    [] OTHER -> NaN

confFields == <<"confidence", "score", "probability", "certainty", "weight">>

\* The confidence (a number) or undefined.  The loop returns at the first
\* present field that converts to a number; num / 100 is exact for the
\* numbers of the model, which are multiples of 1/100.
extractConfidence(step) ==
  LET f == FirstIdx(confFields, LAMBDA field :
             IsPresent(Get(step, field)) /\ ToNumber(Get(step, field)) # NaN)
  IN  IF f = 0 THEN Undef
      ELSE LET num == ToNumber(Get(step, confFields[f])).n IN
           IF num > Unit THEN Num(num \div 100) ELSE Num(num)

\* details.edges of extractLangGraphDetails, undefined when neither edges nor
\* next gives one, or a thrown TypeError: e.target of a null element
DetailEdges(step) ==
  LET edges == Get(step, "edges")
      next == Get(step, "next")
      mapped == IF edges.k = "arr"
                  THEN IF Some(edges.a, IsNullish)
                         THEN Throw("Cannot read properties of null (reading 'target')")
                         ELSE Arr([i \in 1..Len(edges.a) |->
                                IF edges.a[i].k = "str" THEN edges.a[i]
                                ELSE FirstTruthy(<<Get(edges.a[i], "target"),
                                                   Get(edges.a[i], "to"),
                                                   Get(edges.a[i], "name"),
                                                   Str(ToStr(edges.a[i]))>>)])
                  ELSE Undef
  IN  IF IsThrow(mapped) THEN mapped
      ELSE IF next.k = "str" THEN Arr(<<next>>)
      ELSE IF next.k = "arr" THEN next
      ELSE mapped

\* Keep the pairs whose value was assigned
Assigned(pairs) == Obj(SelectSeq(pairs, LAMBDA p : IsDefined(p[2])))

\* The LangGraphDetails object, or a thrown TypeError
extractLangGraphDetails(step) ==
  LET T(field) == IF Truthy(Get(step, field)) THEN Get(step, field) ELSE Undef
      nodeName == IF Truthy(OrElse(Get(step, "node"), Get(step, "node_name")))
                    THEN OrElse(Get(step, "node"), Get(step, "node_name"))
                    ELSE T("name")
      checkpoint == IF Truthy(Get(step, "checkpoint_id"))
                      THEN Obj(<< <<"id", Get(step, "checkpoint_id")>> >>)
                      ELSE T("checkpoint")
      edges == DetailEdges(step)
  IN  IF IsThrow(edges) THEN edges
      ELSE Assigned(<< <<"nodeName", nodeName>>,
                       <<"stateBefore", OrElse(T("state_before"), T("state"))>>,
                       <<"stateAfter", OrElse(T("values"), T("state_after"))>>,
                       <<"config", OrElse(T("configurable"), T("config"))>>,
                       <<"runId", T("run_id")>>,
                       <<"threadId", T("thread_id")>>,
                       <<"checkpoint", checkpoint>>,
                       <<"edges", edges>> >>)

(***************************************************************************)
(* Parent linking.                                                          *)
(***************************************************************************)
\* a === b for JSON values: two objects of a document are never the same
\* object
StrictEq(a, b) == a.k \notin {"obj", "arr", "nan"} /\ a = b

\* The entries one step adds to the tool-call map, in insertion order, or a
\* thrown TypeError: tc.id of a null element, or for...of over a value that
\* is not iterable
ToolCallEntries(step, nodeId) ==
  LET toolCalls == Get(step, "tool_calls")
      fc == Get(step, "function_call")
      OfCall(tc) ==
        (IF Truthy(Get(tc, "id")) THEN << <<Get(tc, "id"), nodeId>> >> ELSE <<>>)
        \o (IF Truthy(Get(Get(tc, "function"), "id"))
              THEN << <<Get(Get(tc, "function"), "id"), nodeId>> >> ELSE <<>>)
      OfCallId(tc) ==
        IF Truthy(Get(tc, "id")) THEN << <<Get(tc, "id"), nodeId>> >> ELSE <<>>
      fromCalls == IF toolCalls.k = "arr"
                     THEN Flatten([i \in 1..Len(toolCalls.a) |-> OfCall(toolCalls.a[i])])
                     ELSE <<>>
      fromFunctionCall ==
        IF Truthy(fc)
          THEN (IF Truthy(Get(fc, "id")) THEN << <<Get(fc, "id"), nodeId>> >> ELSE <<>>)
               \o (IF Truthy(Get(fc, "name"))
                     THEN << <<Str("func:" \o ToStr(Get(fc, "name"))), nodeId>> >>
                     ELSE <<>>)
          ELSE <<>>
      linked == Truthy(Get(step, "_linkedObservationId")) /\ Truthy(toolCalls)
      fromLinked == IF linked /\ toolCalls.k = "arr"
                      THEN Flatten([i \in 1..Len(toolCalls.a) |-> OfCallId(toolCalls.a[i])])
                      ELSE <<>>
  IN
  IF toolCalls.k = "arr" /\ Some(toolCalls.a, IsNullish)
    THEN Throw("Cannot read properties of null (reading 'id')")
  ELSE IF linked /\ toolCalls.k \notin {"arr", "str"}
    THEN Throw("step.tool_calls is not iterable")
  ELSE Arr(fromCalls \o fromFunctionCall \o fromLinked)

\* The map as the sequence of its set(key, nodeId) calls, or the first
\* TypeError thrown while it is built
buildToolCallIdMap(steps, nodeIds) ==
  LET per == [i \in 1..Len(steps) |-> ToolCallEntries(steps[i], nodeIds[i])]
      t == FirstIdx(per, IsThrow)
  IN  IF t # 0 THEN per[t]
      ELSE Arr(Flatten([i \in 1..Len(per) |-> per[i].a]))

\* map.get(key): the node id of the last set(key, ...), or undefined
ToolCallMapGet(map, key) ==
  LET hits == {i \in 1..Len(map.a) : StrictEq(map.a[i][1], key)} IN
  IF hits = {} THEN Undef
  ELSE Str(map.a[CHOOSE i \in hits : \A j \in hits : j <= i][2])

parentFields == <<"parentId", "parent_id", "parent", "parentNodeId", "source", "from", "prev">>

NoIncomingEdge == [k |-> "none"]

\* The outcome of step.edges.find(...) and of the return under it: a value,
\* a thrown TypeError (e.target of a null element met before any match), or
\* NoIncomingEdge when the function goes on to the positional fallback
IncomingEdgeParent(step) ==
  LET edges == Get(step, "edges")
      IsHit(e) == /\ ~IsNullish(e)
                  /\ \/ StrictEq(Get(e, "target"), Get(step, "id"))
                     \/ StrictEq(Get(e, "to"), Get(step, "id"))
      hit == FirstIdx(edges.a, IsHit)
      bad == FirstIdx(edges.a, IsNullish)
  IN  IF edges.k # "arr" THEN NoIncomingEdge
      ELSE IF hit # 0 /\ (bad = 0 \/ hit < bad)
        THEN IF Truthy(edges.a[hit])
               THEN OrElse(Get(edges.a[hit], "source"), Get(edges.a[hit], "from"))
               ELSE NoIncomingEdge
      ELSE IF bad # 0 THEN Throw("Cannot read properties of null (reading 'target')")
      ELSE NoIncomingEdge

\* The parent id: a value (a string, null, undefined, ...) or a thrown
\* TypeError.  index is 0-based; nodeIds is the sequence of node ids.
extractParentId(step, index, nodeIds, map, toolCallIdMap) ==
  LET customParent == getNestedValue(step, map.parentIdField)
      viaCall == ToolCallMapGet(toolCallIdMap, Get(step, "tool_call_id"))
      f == FirstIdx(parentFields, LAMBDA field : IsPresent(Get(step, field)))
      viaEdge == IncomingEdgeParent(step)
  IN
  IF map.parentIdField # NoPath /\ IsPresent(customParent) THEN Str(ToStr(customParent))
  ELSE IF Truthy(Get(step, "_linkedActionId")) THEN Get(step, "_linkedActionId")
  ELSE IF Truthy(Get(step, "tool_call_id")) /\ Truthy(viaCall) THEN viaCall
  ELSE IF f # 0 THEN Str(ToStr(Get(step, parentFields[f])))
  ELSE IF viaEdge # NoIncomingEdge THEN viaEdge
  ELSE IF index = 0 THEN Null
  ELSE IF nodeIds[index] # "" THEN Str(nodeIds[index]) ELSE Null

(***************************************************************************)
(* Metadata.                                                                *)
(***************************************************************************)
internalFields ==
  <<"_originalIndex", "_tupleIndex", "_originalKey", "_parentStepId", "_globalIndex",
    "_linkedObservationId", "_linkedActionId", "_langChainAction",
    "_langChainObservation">>

\* JSON.parse(JSON.stringify(v)): undefined properties vanish, undefined
\* array elements and NaN become null
RECURSIVE JSONRoundTrip(_)
JSONRoundTrip(v) ==
  CASE v.k = "obj" ->
         LET kept == SelectSeq(v.o, LAMBDA p : IsDefined(p[2])) IN
         Obj([i \in 1..Len(kept) |-> <<kept[i][1], JSONRoundTrip(kept[i][2])>>])
    [] v.k = "arr" ->
         Arr([i \in 1..Len(v.a) |->
               IF v.a[i].k = "undef" THEN Null ELSE JSONRoundTrip(v.a[i])])
    [] v.k = "nan" -> Null
    [] OTHER -> v

sanitizeMetadata(step) == JSONRoundTrip(DelAll(step, internalFields))

(***************************************************************************)
(* parse and normalize.                                                     *)
(***************************************************************************)
\* generateId() is `${Date.now()}-${Math.random()...}`; no claim reads it,
\* so one token stands for every generated id
GeneratedId == "<time>-<random>"

\* The initial thought of extractLangChainSupplementaryNodes, or null
InitialThought(r) ==
  LET steps == Get(r, "steps")
      firstStep == steps.a[1]
      thoughtContent == GetFirstTruthy(firstStep, <<"thought", "thinking", "reasoning",
                                                    "content", "text", "message">>)
      computedContent == IF thoughtContent.k = "str" THEN thoughtContent
                         ELSE IF Truthy(thoughtContent) THEN Str(JSONStringify(thoughtContent))
                         ELSE Str("[Initial thought]")
  IN  IF /\ NonEmptyArray(steps)
         /\ firstStep.k \in {"obj", "arr"}
         /\ (Truthy(thoughtContent) \/ Get(firstStep, "type") = Str("thought"))
        THEN PutAll(Spread(firstStep),
               << <<"id", Str("initial-thought")>>, <<"type", Str("thought")>>,
                  <<"content", computedContent>>, <<"_originalIndex", Whole(-1)>>,
                  <<"_globalIndex", Whole(-1)>> >>)
        ELSE Null

\* The final output of extractLangChainSupplementaryNodes, or null
FinalOutput(r, intermediateStepsCount) ==
  LET outputContent == GetFirstTruthy(r, <<"output", "final_answer", "result", "answer">>)
  IN  IF IsPresent(outputContent)
        THEN Obj(<< <<"id", Str("final-output")>>, <<"type", Str("output")>>,
                    <<"content", TextOrJSON(outputContent)>>,
                    <<"_originalIndex", Whole(intermediateStepsCount)>>,
                    <<"_globalIndex", Whole(intermediateStepsCount
                        + (IF InitialThought(r) # Null THEN 1 ELSE 0))>> >>)
        ELSE Null

\* expandedSteps after the LangChain supplementary nodes were added
WithSupplementary(r, expanded) ==
  LET withThought == IF InitialThought(r) # Null
                       THEN <<InitialThought(r)>> \o expanded ELSE expanded
      hasExistingOutput ==
        Some(withThought, LAMBDA st : \/ Get(st, "type") = Str("output")
                                      \/ Get(st, "_originalKey") = Str("output")
                                      \/ Get(st, "_originalKey") = Str("final_answer"))
      finalOutput == FinalOutput(r, Len(expanded))
  IN  IF finalOutput # Null /\ ~hasExistingOutput
        THEN Append(withThought, finalOutput) ELSE withThought

\* The source tag, or a thrown TypeError
detectSource(r, detectedFormat) ==
  LET gpt == ModelStartsWith(r, "gpt")
      claude == ModelStartsWith(r, "claude")
  IN
  IF Truthy(Get(r, "source")) THEN Get(r, "source")
  ELSE IF Truthy(Get(r, "provider")) THEN Get(r, "provider")
  ELSE IF Truthy(Get(r, "framework")) THEN Get(r, "framework")
  ELSE IF Truthy(Get(r, "agent_type")) THEN Get(r, "agent_type")
  ELSE IF \/ Truthy(Get(r, "langgraph_version")) \/ Truthy(Get(r, "graph_id"))
          \/ detectedFormat = "langgraph"
    THEN Str("langgraph")
  ELSE IF \/ Truthy(Get(r, "langchain_version")) \/ Truthy(Get(r, "lc_id"))
          \/ detectedFormat = "langchain"
    THEN Str("langchain")
  ELSE IF IsThrow(gpt) THEN gpt
  ELSE IF gpt.b \/ Truthy(Get(r, "choices")) \/ detectedFormat = "openai" THEN Str("openai")
  ELSE IF claude.b \/ Truthy(Get(r, "anthropic_version")) THEN Str("anthropic")
  ELSE Str(detectedFormat)

NodeOrder_OneBased(step, index) ==
  IF IsDefined(Get(step, "order")) THEN Get(step, "order") ELSE Whole(index + 1)

\* order: step.order !== undefined ? step.order : index
NodeOrder(step, index) ==
  IF IsDefined(Get(step, "order")) THEN Get(step, "order") ELSE Whole(index)

\* The node the callback of nodes = expandedSteps.map(...) returns for one
\* step, or the exception it throws, and whether it pushed the empty-content
\* warning before that.
MapNode(id, type, content, confidence, langGraphDetails, parentId, order, metadata) ==
  IF IsThrow(type) THEN [err |-> type, warned |-> FALSE, node |-> Undef]
  ELSE IF IsThrow(langGraphDetails)
    THEN [err |-> langGraphDetails, warned |-> FALSE, node |-> Undef]
  ELSE IF IsThrow(parentId)
    THEN [err |-> parentId, warned |-> content = Str(EmptyStep), node |-> Undef]
  ELSE [err |-> Undef, warned |-> content = Str(EmptyStep),
        node |-> [id |-> id, type |-> type.s, content |-> content,
                  confidence |-> confidence, parentId |-> parentId,
                  order |-> order, metadata |-> metadata,
                  langGraphDetails |-> IF Len(langGraphDetails.o) > 0
                                         THEN langGraphDetails ELSE Undef]]

\* The extractors applied to one step; index is 0-based.
\* timestamp and metrics are read from fields (timestamp, time, start_time,
\* duration, usage, model, error, status, ...) that no step of the documents
\* below carries, so both are undefined in every node and are left out, as
\* is ParseResult.steps, which repeats the nodes.
NodeOutcome(step, index, nodeIds, map, toolCallIdMap) ==
  MapNode(nodeIds[index + 1], detectType(step, map), extractContent(step, map),
          extractConfidence(step), extractLangGraphDetails(step),
          extractParentId(step, index, nodeIds, map, toolCallIdMap),
          NodeOrder(step, index), sanitizeMetadata(step))

Failure(error, warnings, detectedFormat, arrayPath) ==
  [success |-> FALSE, trace |-> Undef, error |-> Str(error), warnings |-> Arr(warnings),
   detectedFormat |-> detectedFormat, arrayPath |-> arrayPath]

\* `Unexpected error during parsing: ${error.message}`
Unexpected(err, warnings) ==
  Failure("Unexpected error during parsing: " \o err.msg, warnings, Undef, Undef)

\* The warnings pushed by the steps 1..n of outcomes
WarningsOf(outcomes, n) ==
  LET idx == SelectSeq([i \in 1..n |-> i], LAMBDA i : outcomes[i].warned)
  IN  [j \in 1..Len(idx) |->
        Str("Step " \o IntStr(idx[j] - 1) \o ": No content could be extracted")]

NotFoundError_WithoutKeys(r) ==
  "Could not find an array of steps in the JSON.\n\nSearched for: root array, or keys: "
    \o JoinStr(KNOWN_STEP_ARRAY_KEYS, ", ")
    \o "\n\nTip: Use Custom Mapping to specify where your steps are located."

NotFoundError(r) ==
  "Could not find an array of steps in the JSON.\n\nSearched for: root array, or keys: "
    \o JoinStr(KNOWN_STEP_ARRAY_KEYS, ", ")
    \o "\n\nAvailable keys: "
    \o (IF r.k \in {"obj", "arr"} THEN JoinStr(Keys(Spread(r)), ", ") ELSE "none")
    \o "\n\nTip: Use Custom Mapping to specify where your steps are located."

\* The return of a successful parse
Success(r, source, detectedFormat, arrayPath, outcomes, warnings) ==
  [success |-> TRUE,
   trace |-> [id |-> FirstTruthy(<<Get(r, "id"), Get(r, "run_id"), Get(r, "trace_id"),
                                   Get(r, "session_id"), Str("run-" \o GeneratedId)>>),
              source |-> source,
              nodes |-> [i \in 1..Len(outcomes) |-> outcomes[i].node]],
   error |-> Undef,
   warnings |-> IF Len(warnings) > 0 THEN Arr(warnings) ELSE Undef,
   detectedFormat |-> detectedFormat, arrayPath |-> arrayPath]

\* The end of the try block: the exception of the first step whose
\* extractors threw, or the successful return
ParseNodes(r, detectedFormat, found, outcomes, t, source) ==
  IF t # 0
    THEN [thrown |-> outcomes[t].err,
          warnings |-> WarningsOf(outcomes, IF outcomes[t].warned THEN t ELSE t - 1)]
  ELSE IF IsThrow(source)
    THEN [thrown |-> source, warnings |-> WarningsOf(outcomes, Len(outcomes))]
  ELSE Success(r, source, detectedFormat, found.arrayPath, outcomes,
               WarningsOf(outcomes, Len(outcomes)))

ParseMapped(r, map, detectedFormat, found, expandedSteps, nodeIds, toolCallIdToNodeId, outcomes) ==
  IF IsThrow(toolCallIdToNodeId) THEN [thrown |-> toolCallIdToNodeId, warnings |-> <<>>]
  ELSE ParseNodes(r, detectedFormat, found, outcomes,
                  FirstIdx(outcomes, LAMBDA o : IsThrow(o.err)),
                  detectSource(r, detectedFormat.s))

\* From nodeIds = expandedSteps.map(extractId) on
ParseIdentified(r, map, detectedFormat, found, expandedSteps, nodeIds, toolCallIdToNodeId) ==
  ParseMapped(r, map, detectedFormat, found, expandedSteps, nodeIds, toolCallIdToNodeId,
    [i \in 1..Len(expandedSteps) |->
      NodeOutcome(expandedSteps[i], i - 1, nodeIds, map, toolCallIdToNodeId)])

ParseExpanded(r, map, detectedFormat, found, expandedSteps, nodeIds) ==
  IF Len(expandedSteps) = 0
    THEN Failure("Found array but it contains no processable steps.", <<>>,
                 detectedFormat, found.arrayPath)
  ELSE ParseIdentified(r, map, detectedFormat, found, expandedSteps, nodeIds,
                       buildToolCallIdMap(expandedSteps, nodeIds))

\* From the located step array on: expansion, the LangChain supplementary
\* nodes, the node ids
ParseLocated(r, map, detectedFormat, found, expandedSteps) ==
  ParseExpanded(r, map, detectedFormat, found, expandedSteps,
    [i \in 1..Len(expandedSteps) |-> extractId(expandedSteps[i], i - 1, map)])

ParseDetected(r, map, detectedFormat, found) ==
  IF found.steps.k # "arr" \/ Len(found.steps.a) = 0
    THEN Failure(NotFoundError(r), <<>>, detectedFormat, Undef)
  ELSE ParseLocated(r, map, detectedFormat, found,
         IF detectedFormat.s = "langchain"
           THEN WithSupplementary(r, expandSteps(found.steps, map))
           ELSE expandSteps(found.steps, map))

ParseFormat(r, map, detectedFormat) ==
  IF IsThrow(detectedFormat) THEN [thrown |-> detectedFormat, warnings |-> <<>>]
  ELSE ParseDetected(r, map, detectedFormat,
                     findStepArrayForFormat(r, detectedFormat.s, map.stepsPath))

\* The body of the try block of parse, from format detection on: r is the
\* document after JSON.parse.  The result, or the exception that escapes.
\* Each const of the block is the parameter of one of the operators above, so
\* that it is computed once.
ParseDocument(r, map) == ParseFormat(r, map, detectFormatStrict(r))

\* Whether the try block ended by an exception instead of a return
Threw(x) == "thrown" \in DOMAIN x

Caught_Rethrow(x) == x

\* catch (error) { return { success: false, error: `Unexpected ...`, warnings } }
Caught(x) == IF Threw(x) THEN Unexpected(x.thrown, x.warnings) ELSE x

\* The texts JSON.parse accepts are the serialisations of the documents
\* below; every other text of the model is a syntax error.
TextDocs ==
  { Arr(<< Obj(<< <<"content", Str("x")>> >>) >>),
    Obj(<< <<"unrelated_key", Str("value")>> >>),
    Obj(<< <<"steps", Arr(<< Obj(<< <<"content", Str("x")>> >>) >>)>> >>),
    Whole(5), Str("abc"), Null, Arr(<<>>) }

SyntaxError == Throw("Unexpected token in JSON")

JSONParse(text) ==
  IF \E d \in TextDocs : JSONStringify(d) = text
    THEN CHOOSE d \in TextDocs : JSONStringify(d) = text
    ELSE SyntaxError

\* The try block of parse
TryParse(r, map) ==
  IF IsNullish(r)
    THEN Failure("Input is null or undefined. Please provide valid JSON data.",
                 <<>>, Undef, Undef)
  ELSE IF r.k = "str" /\ IsThrow(JSONParse(r.s))
    THEN Failure("Input is a string but not valid JSON. Please check the syntax.",
                 <<>>, Undef, Undef)
  ELSE ParseDocument(IF r.k = "str" THEN JSONParse(r.s) ELSE r, map)

\* GenericAdapter.parse(raw, mapping)
parse(r, map) == Caught(TryParse(r, map))

ErrorNode_GenericMessage(res) ==
  [id |-> "error-node", type |-> "system",
   content |-> Str("Failed to parse trace"),
   order |-> Whole(0), parentId |-> Null,
   metadata |-> Obj(<< <<"error", True>>, <<"warnings", res.warnings>> >>)]

ErrorNode(res) ==
  [id |-> "error-node", type |-> "system",
   content |-> OrElse(res.error, Str("Failed to parse trace")),
   order |-> Whole(0), parentId |-> Null,
   metadata |-> Obj(<< <<"error", True>>, <<"warnings", res.warnings>> >>)]

\* The return of normalize for the result res of parse
RunOf(res) ==
  IF Threw(res) THEN res
  ELSE IF ~res.success \/ res.trace = Undef
    THEN [id |-> Str("run-" \o GeneratedId), source |-> Str("generic"),
          nodes |-> <<ErrorNode(res)>>]
    ELSE res.trace

\* GenericAdapter.normalize(raw, mapping): the run, or the exception of parse
normalize(r, map) == RunOf(parse(r, map))

(***************************************************************************)
(* Trace analysis (shared/analysis/trace-analyzer.ts).  A pattern is a      *)
(* token sequence with its anchors: bb and ba are a \b before and after     *)
(* it, from and to are ^ and $.  Every pattern that is tested on text has   *)
(* the i flag or no letters, so the text is lower-cased before the test.    *)
(***************************************************************************)
\* /\b...\b/
Bounded(toks) == [toks |-> toks, bb |-> TRUE, ba |-> TRUE, from |-> FALSE, to |-> FALSE]

\* /\b.../
Leading(toks) == [toks |-> toks, bb |-> TRUE, ba |-> FALSE, from |-> FALSE, to |-> FALSE]

\* /.../
Anywhere(toks) == [toks |-> toks, bb |-> FALSE, ba |-> FALSE, from |-> FALSE, to |-> FALSE]

\* /^...$/
Anchored(toks) == [toks |-> toks, bb |-> FALSE, ba |-> FALSE, from |-> TRUE, to |-> TRUE]

\* pattern.test(s)
Test(s, pat) ==
  \E i \in (IF pat.from THEN {1} ELSE 1..(Len(s) + 1)) :
    /\ pat.bb => BoundaryBefore(s, i)
    /\ \E e \in MatchEnds(s, i, pat.toks) :
         /\ pat.ba => BoundaryAfter(s, e)
         /\ pat.to => e = Len(s) + 1

\* patterns.some(p => p.test(s))
TestAny(s, pats) == \E n \in 1..Len(pats) : Test(s, pats[n])

BoundedWords(ws) == [i \in 1..Len(ws) |-> Bounded(<<Lit(ws[i])>>)]

ERROR_PATTERNS ==
  BoundedWords(<<"error", "failed", "failure", "exception">>)
    \o << Leading(<<Lit("quota"), WS(0), Alt({"exceeded", "limit"})>>) >>
    \o BoundedWords(<<"timeout", "refused", "unauthorized", "forbidden", "denied">>)
    \o << Bounded(Phrase(<<"unable", "to">>)), Bounded(Phrase(<<"could", "not">>)),
          Bounded(<<Lit("cannot")>>),
          Bounded(<<Lit("4"), DigitRun(2, 2)>>), Bounded(<<Lit("5"), DigitRun(2, 2)>>),
          Leading(<<Lit("rate"), WS(0), Lit("limit")>>),
          Leading(<<Lit("api"), WS(0), Alt({"invalid", "expired", "missing"})>>),
          Leading(<<Lit("api"), WS(0), Lit("key"), WS(0),
                    Alt({"invalid", "expired", "missing"})>>),
          Leading(<<Lit("connection"), WS(0), Alt({"refused", "reset", "timeout"})>>),
          Leading(Phrase(<<"network", "error">>)),
          Leading(Phrase(<<"request", "failed">>)) >>

EMPTY_RESULT_PATTERNS ==
  << Anchored(<<WS(0), Lit("["), WS(0), Lit("]"), WS(0)>>),
     Anchored(<<WS(0), Lit("{"), WS(0), Lit("}"), WS(0)>>),
     Anchored(<<Alt({"null", "undefined", "none", "nil"})>>),
     Leading(<<Lit("no"), WS(1),
               Alt({"result", "results", "flight", "flights", "data", "item", "items",
                    "record", "records", "matche", "matches"}),
               WS(0), Alt({"found", "returned", "available", ""})>>),
     Leading(<<Lit("empty"), WS(1),
               Alt({"response", "result", "data", "list", "array", "set"})>>),
     Leading(<<Lit("nothing"), WS(1), Alt({"found", "returned", "available", "here"})>>),
     Leading(<<Lit("0"), WS(1),
               Alt({"result", "results", "item", "items", "record", "records",
                    "matche", "matches"})>>),
     Anywhere(<<Lit("flight"), Maybe("s"), Lit(":"), WS(0), Lit("["), WS(0), Lit("]")>>),
     Anywhere(<<Lit("result"), Maybe("s"), Lit(":"), WS(0), Lit("["), WS(0), Lit("]")>>),
     Anywhere(<<Lit("data:"), WS(0), Lit("["), WS(0), Lit("]")>>),
     Anywhere(<<Lit("item"), Maybe("s"), Lit(":"), WS(0), Lit("["), WS(0), Lit("]")>>) >>

COMMIT_TOOLS ==
  <<"payment", "pay", "charge", "purchase", "buy",
    "book", "booking", "reserve", "reservation",
    "create", "insert", "add", "post",
    "update", "put", "patch", "modify", "edit",
    "delete", "remove", "destroy",
    "send", "submit", "confirm", "finalize",
    "write", "save", "store",
    "order", "checkout", "complete",
    "payment_api", "booking_api", "order_api",
    "db_write", "db_insert", "db_update", "db_delete",
    "stripe", "paypal", "square">>

SPECULATIVE_PATTERNS ==
  << Leading(<<Lit("i"), Maybe("'ll"), WS(0),
               Alt({"guess", "assume", "suppose", "imagine"})>>),
     Leading(<<Lit("i"), Maybe("'ll"), WS(0), Lit("just"), WS(1),
               Alt({"guess", "assume", "suppose", "imagine"})>>) >>
    \o BoundedWords(<<"probably", "likely", "maybe", "perhaps">>)
    \o << Bounded(Phrase(<<"i", "think">>)), Bounded(Phrase(<<"i", "believe">>)),
          Leading(<<Lit("i"), Maybe("'ll"), WS(1), Lit("estimate")>>),
          Leading(<<Lit("based"), WS(1), Lit("on"), WS(1),
                    Alt({"season", "time", "experience", "general"})>>),
          Leading(<<Lit("without"), WS(1),
                    Alt({"data", "result", "results", "information"})>>),
          Leading(<<Lit("without"), WS(1), Lit("the"), WS(1),
                    Alt({"data", "result", "results", "information"})>>),
          Leading(<<Lit("making"), WS(1), Lit("assumption")>>),
          Leading(<<Lit("making"), WS(1), Lit("a"), Maybe("n"), WS(1), Lit("assumption")>>) >>
    \o BoundedWords(<<"guessing", "assuming">>)
    \o << Leading(<<Lit("let"), WS(0), Alt({"'s", "me"}), WS(1), Lit("guess")>>),
          Leading(<<Lit("let"), WS(0), Alt({"'s", "me"}), WS(1), Lit("just"), WS(1),
                    Lit("guess")>>),
          Leading(<<Lit("i"), WS(1), Lit("don't"), WS(1), Lit("have"), WS(1),
                    Alt({"actual", "real"})>>),
          Leading(<<Lit("i"), WS(1), Lit("don't"), WS(1), Lit("have"), WS(1), Lit("the"),
                    WS(1), Alt({"actual", "real"})>>) >>

SUCCESS_OUTPUT_PATTERNS ==
  BoundedWords(<<"successfully", "success", "complete", "completed",
                 "booked", "purchased", "ordered", "created", "confirmed", "finalized">>)
    \o << Leading(<<Lit("payment"), WS(1), Alt({"processed", "complete", "successful"})>>),
          Leading(<<Lit("reservation"), WS(1), Alt({"confirmed", "complete"})>>),
          Leading(Phrase(<<"flight", "booked">>)),
          Leading(Phrase(<<"hotel", "reserved">>)),
          Leading(<<Lit("your"), WS(1), Alt({"order", "booking", "reservation"}), WS(1),
                    Lit("is")>>),
          Leading(<<Lit("your"), WS(1), Alt({"order", "booking", "reservation"}), WS(1),
                    Lit("has"), WS(1), Lit("been")>>) >>
    \o BoundedWords(<<"done", "finished">>)

\* JSON.stringify(v) of a defined value, without indentation
RECURSIVE StringifyCompact(_)
StringifyCompact(v) ==
  CASE v.k = "arr" ->
         "[" \o JoinStr([i \in 1..Len(v.a) |->
                  IF v.a[i].k = "undef" THEN "null" ELSE StringifyCompact(v.a[i])], ",") \o "]"
    [] v.k = "obj" ->
         LET own == SelectSeq(v.o, LAMBDA p : p[2].k # "undef") IN
         "{" \o JoinStr([i \in 1..Len(own) |->
                  "\"" \o own[i][1] \o "\":" \o StringifyCompact(own[i][2])], ",") \o "}"
    [] OTHER -> Stringify(v, "")

\* s.trim()
RECURSIVE Trim(_)
Trim(s) ==
  IF s = "" THEN s
  ELSE IF IsSpace(CharAt(s, 1)) THEN Trim(SubSeq(s, 2, Len(s)))
  ELSE IF IsSpace(CharAt(s, Len(s))) THEN Trim(SubSeq(s, 1, Len(s) - 1))
  ELSE s

\* a || b || ... || undefined
FirstTruthyOrUndefined(vals) == FirstTruthy(vals \o <<Undef>>)

\* node.metadata?.raw || {}
RawOf(node) == OrElse(Get(node.metadata, "raw"), Obj(<<>>))

extractToolName(node) ==
  FirstTruthyOrUndefined(
    <<Get(node.metadata, "tool"), Get(node.metadata, "tool_name"),
      Get(node.metadata, "function"), Get(node.metadata, "name"),
      Get(node.metadata, "action"),
      Get(RawOf(node), "tool"), Get(RawOf(node), "tool_name"),
      Get(RawOf(node), "function_name"), Get(RawOf(node), "action")>>)

extractToolInput(node) ==
  FirstTruthyOrUndefined(
    <<Get(node.metadata, "tool_input"), Get(node.metadata, "input"),
      Get(node.metadata, "args"), Get(node.metadata, "arguments"),
      Get(node.metadata, "query"),
      Get(Get(node.metadata, "raw"), "tool_input"), Get(Get(node.metadata, "raw"), "input")>>)

extractToolOutput(node) ==
  FirstTruthyOrUndefined(
    <<Get(node.metadata, "tool_output"), Get(node.metadata, "output"),
      Get(node.metadata, "result"), Get(node.metadata, "response"),
      Get(Get(node.metadata, "raw"), "output"), Get(Get(node.metadata, "raw"), "result")>>)

isEmptyValue(value) ==
  \/ IsNullish(value)
  \/ value.k = "arr" /\ Len(value.a) = 0
  \/ value.k = "obj" /\ Len(value.o) = 0

\* COMMIT_TOOLS.some(t => text.includes(t))
IncludesCommitTool(text) ==
  \E n \in 1..Len(COMMIT_TOOLS) : Includes(text, COMMIT_TOOLS[n])

\* The labels of a node whose content is a string and whose tool name, if
\* the node is an action, is a string or undefined; combined and content
\* are the lower-cased combinedContent and content
LabelsOf(node, content, combined, toolOutput, toolName) ==
  [isErrorObservation |->
     /\ node.type = "observation" \/ Truthy(Get(node.metadata, "error"))
     /\ \/ TestAny(combined, ERROR_PATTERNS)
        \/ Get(node.metadata, "error") = True
        \/ Get(node.metadata, "status") = Str("error")
        \/ Get(node.metadata, "status") = Str("failed")
        \/ Truthy(Get(node.metadata, "exception")),
   isEmptyResult |->
     /\ node.type = "observation"
     /\ \/ TestAny(combined, EMPTY_RESULT_PATTERNS)
        \/ Trim(content) \in {"[]", "{}"}
        \/ isEmptyValue(toolOutput) /\ toolOutput # Undef,
   isCommitAction |->
     /\ node.type = "action"
     /\ \/ toolName.k = "str" /\ IncludesCommitTool(ToLower(toolName.s))
        \/ IncludesCommitTool(content),
   isSpeculativeText |->
     /\ node.type \in {"thought", "output"}
     /\ TestAny(content, SPECULATIVE_PATTERNS),
   isSuccessOutput |->
     /\ node.type = "output"
     /\ TestAny(content, SUCCESS_OUTPUT_PATTERNS),
   toolName |-> toolName,
   toolInput |-> extractToolInput(node),
   toolOutput |-> toolOutput]

\* `${content} ${outputStr}`
CombinedContent(content, toolOutput) ==
  ToStr(content) \o " "
    \o (IF toolOutput.k = "str" THEN toolOutput.s
        ELSE StringifyCompact(OrElse(toolOutput, Str(""))))

\* content is node.content || ''.  content.trim() is a TypeError when the
\* content is no string, and toolName?.toLowerCase() is one when an action
\* node's tool name is neither undefined nor a string.
DeriveFrom(node, content, toolOutput, toolName) ==
  IF content.k # "str" THEN Throw("content.trim is not a function")
  ELSE IF node.type = "action" /\ toolName.k \notin {"undef", "str"}
    THEN Throw("toolName?.toLowerCase is not a function")
  ELSE LabelsOf(node, ToLower(content.s), ToLower(CombinedContent(content, toolOutput)),
                toolOutput, toolName)

\* The StepLabels of a node, or the TypeError it raises
deriveStepLabels(node) ==
  DeriveFrom(node, OrElse(node.content, Str("")), extractToolOutput(node),
             extractToolName(node))

\* labels.get(nodes[i].id) for every i: the Map holds, for an id, the labels
\* set last, those of the last node with that id
LabelsById(nodes, derived) ==
  [i \in 1..Len(nodes) |->
     derived[CHOOSE j \in 1..Len(nodes) :
               /\ nodes[j].id = nodes[i].id
               /\ \A n \in (j + 1)..Len(nodes) : nodes[n].id # nodes[i].id]]

\* A TraceIssue.  The description and the suggestion, fixed texts around the
\* values the title interpolates, are left out.
Issue(type, severity, nodeIds, title) ==
  [id |-> "issue-" \o GeneratedId, type |-> type, severity |-> severity,
   nodeIds |-> nodeIds, title |-> title]

\* `${labels.toolName || fallback}`
ToolNameOr(labels, fallback) ==
  IF Truthy(labels.toolName) THEN ToStr(labels.toolName) ELSE fallback

Min(a, b) == IF a < b THEN a ELSE b

detectGuessingAfterError(nodes, labels) ==
  Flatten([i \in 1..(Len(nodes) - 1) |->
    LET next == {j \in (i + 1)..Min(i + 3, Len(nodes)) : labels[j].isSpeculativeText} IN
    IF labels[i].isErrorObservation /\ next # {}
      THEN LET j == CHOOSE n \in next : \A m \in next : n <= m IN
           <<Issue("guessing_after_error", "error", <<nodes[i].id, nodes[j].id>>,
                   "Guessing after " \o ToolNameOr(labels[i], "API") \o " error")>>
      ELSE <<>>])

detectCommitAfterEmpty_Adjacent(nodes, labels) ==
  Flatten([i \in 1..Len(nodes) |->
    LET later == {j \in (i + 1)..Min(i + 1, Len(nodes)) :
                    \/ labels[j].isCommitAction
                    \/ labels[j].isSuccessOutput /\ nodes[j].type = "output"} IN
    IF labels[i].isEmptyResult /\ later # {}
      THEN LET j == CHOOSE n \in later : \A m \in later : n <= m IN
           <<Issue("commit_after_empty", "error", <<nodes[i].id, nodes[j].id>>,
                   IF labels[j].isCommitAction
                     THEN ToolNameOr(labels[j], "commit action") \o " called with empty data"
                     ELSE "Success claimed with empty data")>>
      ELSE <<>>])

detectCommitAfterEmpty(nodes, labels) ==
  Flatten([i \in 1..Len(nodes) |->
    LET later == {j \in (i + 1)..Len(nodes) :
                    \/ labels[j].isCommitAction
                    \/ labels[j].isSuccessOutput /\ nodes[j].type = "output"} IN
    IF labels[i].isEmptyResult /\ later # {}
      THEN LET j == CHOOSE n \in later : \A m \in later : n <= m IN
           <<Issue("commit_after_empty", "error", <<nodes[i].id, nodes[j].id>>,
                   IF labels[j].isCommitAction
                     THEN ToolNameOr(labels[j], "commit action") \o " called with empty data"
                     ELSE "Success claimed with empty data")>>
      ELSE <<>>])

\* /error|failed|sorry|couldn't|unable|problem/i.test(content)
MentionsError(content) ==
  \E w \in {"error", "failed", "sorry", "couldn't", "unable", "problem"} :
    Includes(ToLower(content), w)

detectUnhandledError(nodes, labels) ==
  LET last == {j \in 1..Len(nodes) : j > Len(nodes) - 3 /\ nodes[j].type = "output"} IN
  IF (\A i \in 1..Len(nodes) : ~labels[i].isErrorObservation) \/ last = {} THEN <<>>
  ELSE LET o == CHOOSE n \in last : \A m \in last : n <= m IN
       IF /\ ~MentionsError(nodes[o].content.s)
          /\ (labels[o].isSuccessOutput \/ ~labels[o].isSpeculativeText)
         THEN Flatten([i \in 1..Len(nodes) |->
                IF labels[i].isErrorObservation
                  THEN <<Issue("unhandled_error", "warning", <<nodes[i].id, nodes[o].id>>,
                               "Error from " \o ToolNameOr(labels[i], "tool")
                                 \o " not surfaced")>>
                  ELSE <<>>])
         ELSE <<>>

detectMissingObservations(nodes, labels) ==
  Flatten([i \in 1..Len(nodes) |->
    IF nodes[i].type # "action" THEN <<>>
    ELSE IF i = Len(nodes)
      THEN <<Issue("missing_observation", "warning", <<nodes[i].id>>,
                   "No result for " \o ToolNameOr(labels[i], "unknown"))>>
    ELSE IF nodes[i + 1].type \notin {"observation", "output"}
      THEN <<Issue("missing_observation", "warning", <<nodes[i].id, nodes[i + 1].id>>,
                   "Missing result for " \o ToolNameOr(labels[i], "unknown"))>>
    ELSE <<>>])

\* The next node is an action, so its tool name is a string or undefined
detectErrorsIgnored(nodes, labels) ==
  Flatten([i \in 1..(Len(nodes) - 1) |->
    IF /\ labels[i].isErrorObservation
       /\ nodes[i + 1].type = "action"
       /\ OrElse(labels[i].toolName, Str("tool"))
            # OrElse(labels[i + 1].toolName, Str("another tool"))
      THEN <<Issue("error_ignored", "warning", <<nodes[i].id, nodes[i + 1].id>>,
                   "Error from " \o ToolNameOr(labels[i], "tool") \o " ignored")>>
      ELSE <<>>])

detectEmptyResults(nodes, labels) ==
  Flatten([i \in 1..(Len(nodes) - 1) |->
    IF /\ labels[i].isEmptyResult
       /\ ~labels[i + 1].isCommitAction
       /\ nodes[i + 1].type \in {"action", "thought"}
      THEN <<Issue("empty_result", "warning", <<nodes[i].id, nodes[i + 1].id>>,
                   "Continuing with empty result")>>
      ELSE <<>>])

\* The indices of the nodes of type `type`, in order
IndicesOfType(nodes, types) ==
  SelectSeq([i \in 1..Len(nodes) |-> i], LAMBDA i : nodes[i].type \in types)

LoopIssue_ErrorFromFour(nodes, labels, loopNodes, consecutiveCount) ==
  Issue("loop", IF consecutiveCount >= 4 THEN "error" ELSE "warning",
        [n \in 1..Len(loopNodes) |-> nodes[loopNodes[n]].id],
        "Repeated " \o ToolNameOr(labels[loopNodes[1]], "action")
          \o " (" \o IntStr(consecutiveCount) \o "x)")

\* The loop issue for the action nodes loopNodes (node indices)
LoopIssue(nodes, labels, loopNodes, consecutiveCount) ==
  Issue("loop", IF consecutiveCount >= 5 THEN "error" ELSE "warning",
        [n \in 1..Len(loopNodes) |-> nodes[loopNodes[n]].id],
        "Repeated " \o ToolNameOr(labels[loopNodes[1]], "action")
          \o " (" \o IntStr(consecutiveCount) \o "x)")

\* The loop of detectLoops from position i of actionNodes on, and the push
\* after it
RECURSIVE LoopScan(_, _, _, _, _, _)
LoopScan(nodes, labels, actionNodes, i, consecutiveCount, lastSimilarStart) ==
  IF i > Len(actionNodes)
    THEN IF consecutiveCount >= 3
           THEN <<LoopIssue(nodes, labels,
                            SubSeq(actionNodes, lastSimilarStart, Len(actionNodes)),
                            consecutiveCount)>>
           ELSE <<>>
  ELSE IF /\ Truthy(labels[actionNodes[i - 1]].toolName)
          /\ Truthy(labels[actionNodes[i]].toolName)
          /\ labels[actionNodes[i - 1]].toolName = labels[actionNodes[i]].toolName
    THEN LoopScan(nodes, labels, actionNodes, i + 1, consecutiveCount + 1, lastSimilarStart)
    ELSE (IF consecutiveCount >= 3
            THEN <<LoopIssue(nodes, labels, SubSeq(actionNodes, lastSimilarStart, i - 1),
                             consecutiveCount)>>
            ELSE <<>>)
         \o LoopScan(nodes, labels, actionNodes, i + 1, 1, i)

detectLoops(nodes, labels) ==
  IF Len(IndicesOfType(nodes, {"action"})) < 3 THEN <<>>
  ELSE LoopScan(nodes, labels, IndicesOfType(nodes, {"action"}), 2, 1, 1)

\* Object.keys(v).length of an object or an array
KeyCount(v) == IF v.k = "arr" THEN Len(v.a) ELSE Len(v.o)

toolsNeedingArgs == <<"search", "query", "fetch", "get", "post", "api", "call">>

extremeShort == 10

extremeLong == 5000

\* The issues one iteration of detectSuspiciousTransitions pushes; the tool
\* name of an action node is a string or undefined.  The arrow of the first
\* title is written ->.
SuspiciousAt(nodes, labels, i) ==
  LET toolName == labels[i].toolName
      toolInput == labels[i].toolInput
      actionLen == Len(nodes[i].content.s)
      obsLen == Len(nodes[i + 1].content.s)
  IN
  IF nodes[i].type = "action" /\ nodes[i + 1].type = "output"
    THEN IF /\ Truthy(toolName) /\ toolName # Str("unknown")
            /\ IsPresent(toolInput)
            /\ (toolInput.k \notin {"obj", "arr"} \/ KeyCount(toolInput) > 0)
           THEN <<Issue("suspicious_transition", "warning", <<nodes[i].id, nodes[i + 1].id>>,
                        "Action \"" \o toolName.s \o "\" -> Output without observation")>>
           ELSE <<>>
  ELSE IF nodes[i].type # "action" THEN <<>>
  ELSE (IF /\ Truthy(toolName)
           /\ \E n \in 1..Len(toolsNeedingArgs) :
                Includes(ToLower(toolName.s), toolsNeedingArgs[n])
           /\ \/ IsNullish(toolInput)
              \/ toolInput.k \in {"obj", "arr"} /\ KeyCount(toolInput) = 0
          THEN <<Issue("suspicious_transition", "warning", <<nodes[i].id>>,
                       "Action \"" \o toolName.s \o "\" missing arguments")>>
          ELSE <<>>)
       \o (IF /\ nodes[i + 1].type = "observation"
              /\ \/ actionLen < extremeShort /\ obsLen > extremeLong
                 \/ actionLen > extremeLong /\ obsLen < extremeShort
              /\ ~labels[i + 1].isErrorObservation
             THEN <<Issue("suspicious_transition", "warning",
                          <<nodes[i].id, nodes[i + 1].id>>, "Content length mismatch")>>
             ELSE <<>>)

detectSuspiciousTransitions(nodes, labels) ==
  Flatten([i \in 1..(Len(nodes) - 1) |-> SuspiciousAt(nodes, labels, i)])

\* The pairs [negPattern, affirmPattern], each pattern as its alternatives
negationPairs ==
  << << << Anywhere(<<Lit("no"), WS(1),
                      Alt({"result", "results", "flight", "flights", "data", "item", "items"}),
                      WS(0), Alt({"found", "returned", "available", ""})>>) >>,
        << Anywhere(<<Alt({"found", "have", "got"}), WS(1), OneOrMoreDigits, WS(1),
                      Alt({"result", "results", "flight", "flights", "item", "items"})>>) >> >>,
     << << Anywhere(<<Lit("["), WS(0), Lit("]")>>), Anywhere(<<Lit("empty")>>) >>,
        << Anywhere(<<Lit("contain"), Maybe("s"), WS(1), OneOrMoreDigits>>) >> >>,
     << << Anywhere(<<Lit("failed")>>), Anywhere(<<Lit("error")>>) >>,
        << Anywhere(<<Lit("success")>>) >> >>,
     << << Anywhere(<<Lit("unavailable")>>) >>,
        << Anywhere(<<Lit("available")>>) >> >> >>

\* Whether some pair matches the earlier and the later content
Contradicts(earlier, later) ==
  \E n \in 1..Len(negationPairs) :
    /\ TestAny(ToLower(earlier), negationPairs[n][1])
    /\ TestAny(ToLower(later), negationPairs[n][2])

\* The issues of the pairs (observations[i], observations[j]), j > i
ContradictionsFrom(nodes, observations, i) ==
  Flatten([j \in 1..Len(observations) |->
    IF j > i /\ Contradicts(nodes[observations[i]].content.s, nodes[observations[j]].content.s)
      THEN <<Issue("contradiction_candidate", "warning",
                   <<nodes[observations[i]].id, nodes[observations[j]].id>>,
                   "Potential contradiction")>>
      ELSE <<>>])

detectContradictions(nodes) ==
  Flatten([i \in 1..Len(IndicesOfType(nodes, {"observation", "output"})) |->
    ContradictionsFrom(nodes, IndicesOfType(nodes, {"observation", "output"}), i)])

\* issues.filter(i => i.type === type).length
CountOfType(issues, type) == Len(SelectSeq(issues, LAMBDA i : i.type = type))

criticalIssues == <<"guessing_after_error", "commit_after_empty", "unhandled_error",
                    "error_ignored">>

mediumIssues == <<"suspicious_transition", "loop", "missing_observation">>

\* The reasons pushed for the counts that are positive, joined
Reasons(counts, texts) ==
  JoinStr(Flatten([n \in 1..Len(counts) |->
            IF counts[n] > 0 THEN <<IntStr(counts[n]) \o texts[n]>> ELSE <<>>]), ", ")

calculateRiskLevel(issues, errorNodeCount) ==
  IF errorNodeCount > 0 \/ (\E n \in 1..Len(criticalIssues) :
                              CountOfType(issues, criticalIssues[n]) > 0)
    THEN [level |-> "high",
          explanation |-> "Risk high: "
            \o Reasons(<<errorNodeCount,
                         CountOfType(issues, "guessing_after_error"),
                         CountOfType(issues, "commit_after_empty"),
                         CountOfType(issues, "unhandled_error"),
                         CountOfType(issues, "error_ignored")>>,
                       <<" error(s) detected", " case(s) of guessing after error",
                         " commit(s) with empty data", " unhandled error(s)",
                         " error(s) ignored">>)
            \o "."]
  ELSE IF \E n \in 1..Len(mediumIssues) : CountOfType(issues, mediumIssues[n]) > 0
    THEN [level |-> "medium",
          explanation |-> "Risk medium: "
            \o Reasons(<<CountOfType(issues, "loop"),
                         CountOfType(issues, "missing_observation"),
                         CountOfType(issues, "suspicious_transition")>>,
                       <<" loop(s) detected", " missing observation(s)",
                         " suspicious transition(s)">>)
            \o "."]
  ELSE IF Len(issues) = 0
    THEN [level |-> "low", explanation |-> "No issues detected in this trace."]
  ELSE [level |-> "low", explanation |-> IntStr(Len(issues)) \o " minor issue(s) detected."]

IssueTypes ==
  {"loop", "missing_observation", "suspicious_transition", "contradiction_candidate",
   "error_ignored", "empty_result", "guessing_after_error", "commit_after_empty",
   "unhandled_error"}

summarizeIssues(issues) == [type \in IssueTypes |-> CountOfType(issues, type)]

\* metadata.raw || metadata
RawOrMetadata(node) == OrElse(Get(node.metadata, "raw"), node.metadata)

\* v !== undefined && v !== false && v !== null
IsErrorValue(v) == v.k # "undef" /\ v # False /\ v.k # "null"

hasErrorIndicators(node) ==
  \/ IsErrorValue(Get(node.metadata, "error"))
  \/ IsDefined(Get(node.metadata, "exception"))
  \/ Get(node.metadata, "status") \in {Str("error"), Str("failed")}
  \/ IsDefined(Get(node.metadata, "error_type"))
  \/ IsDefined(Get(node.metadata, "error_message"))
  \/ IsDefined(Get(node.metadata, "traceback"))
  \/ IsDefined(Get(node.metadata, "stack_trace"))
  \/ IsErrorValue(Get(RawOrMetadata(node), "error"))
  \/ IsDefined(Get(RawOrMetadata(node), "exception"))
  \/ IsDefined(Get(RawOrMetadata(node), "error_code"))
  \/ /\ node.type = "system"
     /\ \E w \in {"error", "failed", "exception"} :
          Includes(ToLower(ToStr(OrElse(node.content, Str("")))), w)

computeTraceStats(nodes, labels, issues) ==
  [totalNodes |-> Len(nodes),
   totalActions |-> Len(IndicesOfType(nodes, {"action"})),
   totalErrors |-> Cardinality({i \in 1..Len(nodes) :
                     labels[i].isErrorObservation \/ hasErrorIndicators(nodes[i])}),
   issuesByType |-> summarizeIssues(issues)]

\* { ...record, [field]: value }
With(record, field, value) ==
  [f \in DOMAIN record \cup {field} |-> IF f = field THEN value ELSE record[f]]

\* nodeIssueMap.get(id) || []: every issue once for each time its nodeIds
\* name the id, in the order of allIssues
IssuesOfNode(allIssues, id) ==
  Flatten([n \in 1..Len(allIssues) |->
    Flatten([m \in 1..Len(allIssues[n].nodeIds) |->
      IF allIssues[n].nodeIds[m] = id THEN <<allIssues[n]>> ELSE <<>>])])

AnalyzedNode_RiskOnAll(node, allIssues, level) ==
  With(With(node, "issues", IssuesOfNode(allIssues, node.id)), "riskLevel", level)

AnalyzedNode_KeepsIssues(node, allIssues, level) ==
  LET issues == (IF "issues" \in DOMAIN node THEN node.issues ELSE <<>>)
                  \o IssuesOfNode(allIssues, node.id) IN
  IF node.type = "output"
    THEN With(With(node, "issues", issues), "riskLevel", level)
    ELSE With(node, "issues", issues)

\* A node of analyzedNodes, with the risk level when its type is output
AnalyzedNode(node, allIssues, level) ==
  IF node.type = "output"
    THEN With(With(node, "issues", IssuesOfNode(allIssues, node.id)), "riskLevel", level)
    ELSE With(node, "issues", IssuesOfNode(allIssues, node.id))

\* The return of analyzeTrace
Analyzed(trace, allIssues, stats, risk) ==
  With(With(With(With(With(With(trace,
    "nodes", [i \in 1..Len(trace.nodes) |->
                AnalyzedNode(trace.nodes[i], allIssues, risk.level)]),
    "issues", allIssues),
    "riskLevel", risk.level),
    "riskExplanation", risk.explanation),
    "issueSummary", summarizeIssues(allIssues)),
    "stats", stats)

\* Steps 4 and 5
AnalyzeStats(trace, allIssues, stats) ==
  Analyzed(trace, allIssues, stats, calculateRiskLevel(allIssues, stats.totalErrors))

\* Step 3 on
AnalyzeIssues(trace, labels, allIssues) ==
  AnalyzeStats(trace, allIssues, computeTraceStats(trace.nodes, labels, allIssues))

\* Step 2: the detectors, in the order of allIssues
AnalyzeLabelled(trace, labels) ==
  AnalyzeIssues(trace, labels,
    detectGuessingAfterError(trace.nodes, labels)
      \o detectCommitAfterEmpty(trace.nodes, labels)
      \o detectUnhandledError(trace.nodes, labels)
      \o detectMissingObservations(trace.nodes, labels)
      \o detectErrorsIgnored(trace.nodes, labels)
      \o detectLoops(trace.nodes, labels)
      \o detectEmptyResults(trace.nodes, labels)
      \o detectSuspiciousTransitions(trace.nodes, labels)
      \o detectContradictions(trace.nodes))

\* Step 1: the exception of the first node whose labelling raises one ends
\* the analysis
AnalyzeDerived(trace, derived) ==
  IF \E i \in 1..Len(derived) : "msg" \in DOMAIN derived[i]
    THEN [thrown |-> derived[CHOOSE i \in 1..Len(derived) :
                               /\ "msg" \in DOMAIN derived[i]
                               /\ \A j \in 1..(i - 1) : "msg" \notin DOMAIN derived[j]]]
    ELSE AnalyzeLabelled(trace, LabelsById(trace.nodes, derived))

\* analyzeTrace(trace): the analysed run, or the exception it raises
analyzeTrace(trace) ==
  AnalyzeDerived(trace, [i \in 1..Len(trace.nodes) |-> deriveStepLabels(trace.nodes[i])])

ArgumentAfter_WritesNodes(trace, analysed) ==
  IF Threw(analysed) THEN trace
  ELSE With(trace, "nodes",
         [i \in 1..Len(trace.nodes) |->
            IF trace.nodes[i].type = "output"
              THEN With(trace.nodes[i], "riskLevel", analysed.riskLevel)
              ELSE trace.nodes[i]])

\* The argument of analyzeTrace after the call.  The only writes to existing
\* objects are `outputNode.riskLevel = level`, on the elements of
\* analyzedNodes, which nodes.map(node => ({...node, issues})) created; the
\* run returned is a new object, too.  Nothing is written to the argument.
ArgumentAfter(trace, analysed) == trace

(***************************************************************************)
(* Timestamps.  Epoch seconds and milliseconds exceed the integers of the   *)
(* model, so such a number is held by its decimal digits.                   *)
(***************************************************************************)
\* A whole number by its digits, without leading zeros
Big(digits) == [k |-> "num", digits |-> digits, neg |-> FALSE]

NegBig(digits) == [k |-> "num", digits |-> digits, neg |-> TRUE]

IsBig(v) == v.k = "num" /\ "digits" \in DOMAIN v

\* a > b for two whole numbers given by their digits
RECURSIVE DigitsGreater(_, _)
DigitsGreater(a, b) ==
  IF Len(a) # Len(b) THEN Len(a) > Len(b)
  ELSE IF a = "" THEN FALSE
  ELSE IF CharAt(a, 1) # CharAt(b, 1) THEN DigitsVal(CharAt(a, 1)) > DigitsVal(CharAt(b, 1))
  ELSE DigitsGreater(SubSeq(a, 2, Len(a)), SubSeq(b, 2, Len(b)))

\* ts > bound for a number ts and a whole bound given by its digits
Above(ts, bound) ==
  IF IsBig(ts) THEN ~ts.neg /\ DigitsGreater(ts.digits, bound)
  ELSE /\ ts.n > 0
       /\ \/ DigitsGreater(IntStr(ts.n \div Unit), bound)
          \/ IntStr(ts.n \div Unit) = bound /\ ts.n % Unit > 0

\* ts * 1000
TimesThousand(ts) ==
  IF IsBig(ts) THEN [ts EXCEPT !.digits = @ \o "000"] ELSE Num(ts.n * 1000)

IsLeapYear(y) == y % 4 = 0 /\ (y % 100 # 0 \/ y % 400 = 0)

DaysInMonth(y, m) ==
  IF m = 2 THEN (IF IsLeapYear(y) THEN 29 ELSE 28)
  ELSE IF m \in {4, 6, 9, 11} THEN 30 ELSE 31

\* The days from 1970-01-01 to the day d of month m of year y
DaysFromCivil(y, m, d) ==
  LET yy == IF m <= 2 THEN y - 1 ELSE y
      era == yy \div 400
      yoe == yy - era * 400
      doy == (153 * (IF m > 2 THEN m - 3 ELSE m + 9) + 2) \div 5 + d - 1
      doe == yoe * 365 + yoe \div 4 - yoe \div 100 + doy
  IN  era * 146097 + doe - 719468

\* seconds * 1000 as a number
MillisOfSeconds(seconds) ==
  IF seconds = 0 THEN Num(0)
  ELSE IF seconds > 0 THEN Big(IntStr(seconds) \o "000")
  ELSE NegBig(IntStr(0 - seconds) \o "000")

\* The time value of the UTC date and time, or NaN for a field out of range
TimeValue(y, m, d, hh, mm, ss) ==
  IF m \in 1..12 /\ d \in 1..DaysInMonth(y, m) /\ hh \in 0..23 /\ mm \in 0..59 /\ ss \in 0..59
    THEN MillisOfSeconds(DaysFromCivil(y, m, d) * 86400 + hh * 3600 + mm * 60 + ss)
    ELSE NaN

\* text is YYYY-MM-DD
IsIsoDate(text) ==
  /\ Len(text) = 10
  /\ AllDigits(SubSeq(text, 1, 4)) /\ CharAt(text, 5) = "-"
  /\ AllDigits(SubSeq(text, 6, 7)) /\ CharAt(text, 8) = "-"
  /\ AllDigits(SubSeq(text, 9, 10))

\* text is HH:MM:SSZ
IsIsoTime(text) ==
  /\ Len(text) = 9
  /\ AllDigits(SubSeq(text, 1, 2)) /\ CharAt(text, 3) = ":"
  /\ AllDigits(SubSeq(text, 4, 5)) /\ CharAt(text, 6) = ":"
  /\ AllDigits(SubSeq(text, 7, 8)) /\ CharAt(text, 9) = "Z"

\* new Date(text).getTime(), for the ISO forms YYYY-MM-DD and
\* YYYY-MM-DDTHH:MM:SSZ of the years 1902 to 2037, whose seconds fit the
\* integers of the model; NaN for a text that is no date.  Texts on which
\* engines differ (a day past the end of its month) are not drawn.
DateGetTime(text) ==
  IF IsIsoDate(text)
    THEN TimeValue(DigitsVal(SubSeq(text, 1, 4)), DigitsVal(SubSeq(text, 6, 7)),
                   DigitsVal(SubSeq(text, 9, 10)), 0, 0, 0)
  ELSE IF /\ Len(text) = 20 /\ IsIsoDate(SubSeq(text, 1, 10)) /\ CharAt(text, 11) = "T"
          /\ IsIsoTime(SubSeq(text, 12, 20))
    THEN TimeValue(DigitsVal(SubSeq(text, 1, 4)), DigitsVal(SubSeq(text, 6, 7)),
                   DigitsVal(SubSeq(text, 9, 10)), DigitsVal(SubSeq(text, 12, 13)),
                   DigitsVal(SubSeq(text, 15, 16)), DigitsVal(SubSeq(text, 18, 19)))
  ELSE NaN

Millis == "1000000000000"

Seconds == "1000000000"

parseTimestamp_SecondsInclusive(ts) ==
  IF IsNullish(ts) THEN Undef
  ELSE IF ts.k = "nan" THEN Undef
  ELSE IF ts.k = "num"
    THEN IF Above(ts, Millis) THEN ts
         ELSE IF Above(ts, Seconds) \/ (IsBig(ts) /\ ts.digits = Seconds)
           THEN TimesThousand(ts)
         ELSE Undef
  ELSE IF ts.k = "str"
    THEN IF DateGetTime(ts.s) = NaN THEN Undef ELSE DateGetTime(ts.s)
  ELSE Undef

\* parseTimestamp(ts); NaN is a number above nothing
parseTimestamp(ts) ==
  IF IsNullish(ts) THEN Undef
  ELSE IF ts.k = "nan" THEN Undef
  ELSE IF ts.k = "num"
    THEN IF Above(ts, Millis) THEN ts
         ELSE IF Above(ts, Seconds) THEN TimesThousand(ts)
         ELSE Undef
  ELSE IF ts.k = "str"
    THEN IF DateGetTime(ts.s) = NaN THEN Undef ELSE DateGetTime(ts.s)
  ELSE Undef

(***************************************************************************)
(* Replay.  The state of Home (replayMode, replayIndex) and of the          *)
(* ReplayController it mounts in replay mode (isPlaying, speed, the timer   *)
(* of the playback effect).  A click is handled, rendered and committed     *)
(* with its effects before the next event; the render after a timer tick    *)
(* is committed first and its effect runs later (effectDue).  passed holds  *)
(* the indices given to onIndexChange, idle whether the user has stopped.   *)
(***************************************************************************)
NoTimer == [armed |-> FALSE, from |-> 0]

\* The timer of setTimeout(() => goToIndex(currentIndex + 1), interval)
Armed(currentIndex) == [armed |-> TRUE, from |-> currentIndex]

\* Home and an unmounted controller, for a trace of n nodes
Unmounted(n) ==
  [n |-> n, replayMode |-> FALSE, currentIndex |-> 0, isPlaying |-> FALSE,
   speed |-> "1", timer |-> NoTimer, effectDue |-> FALSE, passed |-> {}, idle |-> FALSE]

NoReplay == Unmounted(0)

isAtStart(r) == r.currentIndex = 0

isAtEnd(r) == r.currentIndex >= r.n - 1

goToIndex(r, index) ==
  IF index >= 0 /\ index < r.n
    THEN [r EXCEPT !.currentIndex = index, !.passed = @ \cup {index}]
    ELSE r

handlePrevious(r) == IF ~isAtStart(r) THEN goToIndex(r, r.currentIndex - 1) ELSE r

handleNext(r) == IF ~isAtEnd(r) THEN goToIndex(r, r.currentIndex + 1) ELSE r

togglePlay(r) ==
  IF isAtEnd(r) THEN [goToIndex(r, 0) EXCEPT !.isPlaying = TRUE]
  ELSE [r EXCEPT !.isPlaying = ~@]

PlaybackEffect_NoEnd(r) ==
  IF ~r.isPlaying THEN [r EXCEPT !.timer = NoTimer, !.effectDue = FALSE]
  ELSE [r EXCEPT !.timer = Armed(r.currentIndex), !.effectDue = FALSE]

\* The playback effect after a commit: the cleanup of the timer before, and
\* the effect; setIsPlaying(false) renders again, and the effect returns at
\* once
PlaybackEffect(r) ==
  IF ~r.isPlaying THEN [r EXCEPT !.timer = NoTimer, !.effectDue = FALSE]
  ELSE IF isAtEnd(r)
    THEN [r EXCEPT !.timer = NoTimer, !.effectDue = FALSE, !.isPlaying = FALSE]
  ELSE [r EXCEPT !.timer = Armed(r.currentIndex), !.effectDue = FALSE]

\* The commit after a click: handled is the state the handler asked for, with
\* the values of the render r.  An effect of r still due runs before the
\* render, so that its setIsPlaying(false) is applied after the updates of
\* the handler.
Clicked(r, handled) ==
  IF r.effectDue /\ r.isPlaying /\ isAtEnd(r)
    THEN PlaybackEffect([handled EXCEPT !.isPlaying = FALSE])
    ELSE PlaybackEffect(handled)

\* Home.toggleReplayMode: leaving unmounts the controller, entering sets
\* replayIndex to 0 and mounts one
toggleReplayMode(r) ==
  IF r.replayMode
    THEN [r EXCEPT !.replayMode = FALSE, !.isPlaying = FALSE, !.speed = "1",
                   !.timer = NoTimer, !.effectDue = FALSE]
    ELSE [r EXCEPT !.replayMode = TRUE, !.currentIndex = 0]

(***************************************************************************)
(* The documents and mappings of the model.                                 *)
(***************************************************************************)
MaxSteps == 2

R1(k1, v1) == Obj(<< <<k1, v1>> >>)

R2(k1, v1, k2, v2) == Obj(<< <<k1, v1>>, <<k2, v2>> >>)

R3(k1, v1, k2, v2, k3, v3) == Obj(<< <<k1, v1>>, <<k2, v2>>, <<k3, v3>> >>)

\* [actionObj, observationValue] of a LangChain AgentExecutor
LangChainTuple ==
  Arr(<< R3("tool", Str("calc"), "tool_input", Str("2+2"), "log", Str("compute")),
         Str("4") >>)

\* Well-formed, non-composite elements of a step array
PlainSteps ==
  { R1("content", Str("x")),
    R2("id", Str("a"), "content", Str("I need to look this up")),
    R2("id", Str("step-1"), "content", Str("y")),
    R2("content", Str("z"), "parent_id", Str("a")),
    R2("content", Str("w"), "order", Whole(5)),
    R2("content", Str("c"), "confidence", Whole(85)),
    R2("role", Str("assistant"), "tool_calls",
       Arr(<< R2("id", Str("c1"), "function", R1("name", Str("lookup"))) >>)),
    R3("role", Str("tool"), "tool_call_id", Str("c1"), "content", Str("r")),
    Obj(<<>>),
    R2("id", Str("k"), "type", Str("thought")),
    R2("content", Str("u"), "_note", Str("n")),
    Str("a bare string") }

\* Composite and LangChain-shaped elements
CompositeSteps ==
  { LangChainTuple,
    R3("thought", Str("t"), "action", Str("search"), "observation", Str("o")),
    R2("action", Str("search"), "tool_input", Str("q")),
    R1("observation", Str("res")),
    R2("id", Str("abc"), "result", Str("R")),
    R3("id", Str("abc"), "thought", Str("t"), "action", Str("search")) }

\* Elements with a field of an unexpected shape, and elements that are no
\* record
MalformedSteps ==
  { R2("content", Str("e"), "edges", Arr(<<Null>>)),
    R2("content", Str("t"), "tool_calls", Arr(<<Null>>)),
    R2("content", Str("n"), "edges", Arr(<<Str("n2")>>)),
    R1("content", Str(EmptyStep)),
    Null,
    Whole(42) }

MixedSteps ==
  CompositeSteps \cup MalformedSteps
    \cup {R1("content", Str("x")), R2("id", Str("step-1"), "content", Str("y"))}

\* Elements for a custom mapping with typeField = kind, contentField = body
MappedSteps ==
  { R3("type", Str("action"), "kind", Str("thought"), "content", Str("c")),
    R2("kind", Str("observation"), "content", Str("c")),
    R2("kind", Str("note"), "content", Str("c")),
    R2("body", Str("X"), "content", Str("Y")),
    R2("body", Str("X"), "result", Str("R")),
    R2("body", Null, "content", Str("Y")),
    R1("content", Str("x")),
    LangChainTuple }

\* All arrays of at most MaxSteps elements of pool
RECURSIVE ArraysUpTo(_, _)
ArraysUpTo(pool, n) ==
  IF n = 0 THEN {<<>>}
  ELSE LET shorter == ArraysUpTo(pool, n - 1) IN
       shorter \cup {Append(a, e) : a \in {b \in shorter : Len(b) = n - 1}, e \in pool}

StepArrays(pool) == {Arr(a) : a \in ArraysUpTo(pool, MaxSteps)}

\* The documents that carry a step array: the array itself, or an object
\* holding it under a key
Wrapped(arrays, keys) ==
  arrays \cup {R1(key, a) : key \in keys, a \in arrays}

\* Documents that are no trace at all
OtherDocs ==
  { Null, Undef, Whole(5), True, Str("not json {"), Obj(<<>>),
    R1("unrelated_key", Str("value")),
    R2("model", Whole(5), "steps", Arr(<<R1("content", Str("x"))>>)),
    R1("data", R1("points", Arr(<<Whole(1), Whole(2)>>))) }
    \cup {Str(JSONStringify(d)) : d \in TextDocs}

Docs == Wrapped(StepArrays(MixedSteps), {"steps", "intermediate_steps"}) \cup OtherDocs

PlainDocs == Wrapped(StepArrays(PlainSteps), {"events"})

KindBodyMapping == [NoMapping EXCEPT !.typeField = "kind", !.contentField = "body"]

MappedDocs == Wrapped(StepArrays(MappedSteps), {"steps"})

(***************************************************************************)
(* The state machine: a document is uploaded, parsed (UploadZone calls      *)
(* adapter.parse), then normalised (Home.handleUpload calls                 *)
(* adapter.normalize).                                                      *)
(***************************************************************************)
NoValue == [k |-> "undef"]

Parse ==
  /\ pc = "uploaded"
  /\ result' = parse(raw, mapping)
  /\ pc' = "parsed"
  /\ UNCHANGED <<raw, mapping, run, confStep, confOut, analysis, reanalysis, replay>>

Normalize ==
  /\ pc = "parsed"
  /\ run' = normalize(raw, mapping)
  /\ pc' = "normalized"
  /\ UNCHANGED <<raw, mapping, result, confStep, confOut, analysis, reanalysis, replay>>

Next == Parse \/ Normalize

InitWith(docs, mappings) ==
  /\ raw \in docs
  /\ mapping \in mappings
  /\ pc = "uploaded"
  /\ result = NoValue
  /\ run = NoValue
  /\ confStep = NoValue
  /\ confOut = NoValue
  /\ analysis = NoValue
  /\ reanalysis = NoValue
  /\ replay = NoReplay

Init == InitWith(Docs, {NoMapping})

Spec == Init /\ [][Next]_vars

InitMapped == InitWith(MappedDocs, {NoMapping, KindBodyMapping})

SpecMapped == InitMapped /\ [][Next]_vars

InitPlain == InitWith(PlainDocs, {NoMapping})

SpecPlain == InitPlain /\ [][Next]_vars

(***************************************************************************)
(* Object roots for format detection: one or two of the fields the          *)
(* detectors look at.                                                       *)
(***************************************************************************)
DetectFields ==
  << <<"langgraph_version", Str("0.2")>>,
     <<"langchain_version", Str("0.1")>>,
     <<"lc_id", Str("lc")>>,
     <<"intermediate_steps", Arr(<<>>)>>,
     <<"intermediate_steps", Arr(<<LangChainTuple>>)>>,
     <<"steps", Arr(<<R1("content", Str("x"))>>)>>,
     <<"steps", Arr(<<R2("action", Str("search"), "tool_input", Str("q"))>>)>>,
     <<"steps", Arr(<<R1("observation", Str("res"))>>)>>,
     <<"steps", Arr(<<R2("thought", Str("t"), "action", Str("search"))>>)>>,
     <<"output", Str("done")>>,
     <<"choices", Arr(<<R1("content", Str("x"))>>)>>,
     <<"model", Str("gpt-4")>>,
     <<"model", Str("claude-3")>>,
     <<"model", Whole(5)>>,
     <<"tool_calls", Arr(<<R2("id", Str("c1"), "function", R1("name", Str("lookup")))>>)>>,
     <<"tool_calls", Arr(<<R1("name", Str("lookup"))>>)>>,
     <<"events", Arr(<<R2("node", Str("agent"), "content", Str("x"))>>)>>,
     <<"events", Arr(<<R1("content", Str("x"))>>)>> >>

DetectDocs ==
  {Obj(<<DetectFields[i]>>) : i \in 1..Len(DetectFields)}
    \cup {Obj(<<DetectFields[p[1]], DetectFields[p[2]]>>) :
            p \in {q \in (1..Len(DetectFields)) \X (1..Len(DetectFields)) :
                     q[1] < q[2] /\ DetectFields[q[1]][1] # DetectFields[q[2]][1]}}

InitDetect == InitWith(DetectDocs, {NoMapping})

SpecDetect == InitDetect /\ [][Next]_vars

(***************************************************************************)
(* extractConfidence on its own: a step record carrying one or two of the   *)
(* confidence fields is drawn, and the extractor is applied to it.          *)
(***************************************************************************)
ConfValues ==
  { Num(0), Num(Unit \div 2), Num(85 * (Unit \div 100)), Whole(1), Num(3 * (Unit \div 2)),
    Whole(85), Whole(100), Whole(150), Whole(-5),
    Str("85"), Str("high"), Null, True, Arr(<<>>) }

ConfFieldSet == {confFields[i] : i \in 1..Len(confFields)}

ConfSteps ==
  {R1(f, v) : f \in ConfFieldSet, v \in ConfValues}
    \cup {R2(f1, v1, f2, Whole(85)) :
            f1 \in ConfFieldSet, f2 \in ConfFieldSet \ {"confidence"}, v1 \in ConfValues}

ExtractConfidence ==
  /\ pc = "step"
  /\ confOut' = extractConfidence(confStep)
  /\ pc' = "extracted"
  /\ UNCHANGED <<raw, mapping, result, run, confStep, analysis, reanalysis, replay>>

NextConfidence == ExtractConfidence

InitConfidence ==
  /\ confStep \in {st \in ConfSteps : Len(st.o) = Cardinality(KeySet(st))}
  /\ confOut = NoValue
  /\ pc = "step"
  /\ raw = NoValue
  /\ mapping = NoMapping
  /\ result = NoValue
  /\ run = NoValue
  /\ analysis = NoValue
  /\ reanalysis = NoValue
  /\ replay = NoReplay

SpecConfidence == InitConfidence /\ [][NextConfidence]_vars

(***************************************************************************)
(* Analysis.  Home.handleUpload passes the run of normalize to              *)
(* analyzeTrace; an exception of analyzeTrace leaves the handler.           *)
(***************************************************************************)
Analyze ==
  /\ pc = "normalized"
  /\ ~Threw(run)
  /\ analysis' = analyzeTrace(run)
  /\ run' = ArgumentAfter(run, analysis')
  /\ pc' = "analyzed"
  /\ UNCHANGED <<raw, mapping, result, confStep, confOut, reanalysis, replay>>

\* Step records for the pipeline up to the analysis
AnalyzedSteps ==
  { R3("id", Str("c1"), "type", Str("function"),
       "function", R2("name", Str("lookup"), "arguments", Str("{}"))),
    R3("type", Str("action"), "tool", Str("search"), "tool_input", Str("q")),
    R3("type", Str("action"), "tool", R1("name", Str("search")), "input", Str("q")),
    R1("name", Whole(5)),
    R2("type", Str("observation"), "content", Str("flights: []")),
    R2("type", Str("output"), "content", Str("Flight booked successfully!")),
    R2("type", Str("thought"), "content", Str("I think so")),
    R2("type", Str("observation"), "content", Str("connection error")) }

AnalyzedDocs ==
  Wrapped(StepArrays(AnalyzedSteps), {"steps"})
    \cup {Null, R1("unrelated_key", Str("value"))}

NextPipeline == Parse \/ Normalize \/ Analyze

InitPipeline == InitWith(AnalyzedDocs, {NoMapping})

SpecPipeline == InitPipeline /\ [][NextPipeline]_vars

(***************************************************************************)
(* analyzeTrace on its own: a run is drawn, analysed, and the analysed run  *)
(* is analysed again.                                                       *)
(***************************************************************************)
Reanalyze ==
  /\ pc = "analyzed"
  /\ ~Threw(analysis)
  /\ reanalysis' = analyzeTrace(analysis)
  /\ analysis' = ArgumentAfter(analysis, reanalysis')
  /\ pc' = "reanalyzed"
  /\ UNCHANGED <<raw, mapping, result, run, confStep, confOut, replay>>

NextAnalyzer == Analyze \/ Reanalyze

MaxNodes == 3

MaxActions == 5

Kind(type, content, metadata) == [type |-> type, content |-> content, metadata |-> metadata]

\* The node kinds of the runs: type, content and metadata
NodeKinds ==
  { Kind("action", "search", R1("tool", Str("search"))),
    Kind("action", "pay\n1", R2("tool", Str("pay"), "tool_input", Str("1"))),
    Kind("observation", "[]", R1("content", Str("[]"))),
    Kind("observation", "error 1", R1("content", Str("error 1"))),
    Kind("observation", "3 found", R1("content", Str("3 found"))),
    Kind("output", "Booked!", R1("content", Str("Booked!"))),
    Kind("output", "All good", R2("content", Str("All good"), "error", True)),
    Kind("thought", "maybe 5", R1("content", Str("maybe 5"))),
    Kind("action", "go", R1("content", Str("go"))) }

\* The node kinds of the runs for loop detection
ActionKinds ==
  { Kind("action", "get\nq", R2("tool", Str("get"), "tool_input", Str("q"))),
    Kind("action", "run\nk", R2("tool", Str("run"), "tool_input", Str("k"))),
    Kind("action", "go", R1("content", Str("go"))),
    Kind("observation", "3 found", R1("content", Str("3 found"))) }

\* The i-th node of a run, of kind kind
NodeOfKind(i, kind) ==
  [id |-> "n" \o IntStr(i), type |-> kind.type, content |-> Str(kind.content),
   confidence |-> Undef, langGraphDetails |-> Undef, parentId |-> Null,
   order |-> Whole(i - 1), metadata |-> kind.metadata]

\* The runs of at most n nodes of kinds
RECURSIVE KindSeqs(_, _)
KindSeqs(kinds, n) ==
  IF n = 0 THEN {<<>>}
  ELSE KindSeqs(kinds, n - 1)
         \cup {Append(a, e) : a \in {b \in KindSeqs(kinds, n - 1) : Len(b) = n - 1},
                              e \in kinds}

Runs(kinds, n) ==
  {[id |-> Str("run-" \o GeneratedId), source |-> Str("generic"),
    nodes |-> [i \in 1..Len(ks) |-> NodeOfKind(i, ks[i])]] : ks \in KindSeqs(kinds, n)}

InitRuns(runs) ==
  /\ run \in runs
  /\ pc = "normalized"
  /\ raw = NoValue
  /\ mapping = NoMapping
  /\ result = NoValue
  /\ confStep = NoValue
  /\ confOut = NoValue
  /\ analysis = NoValue
  /\ reanalysis = NoValue
  /\ replay = NoReplay

InitAnalyzer == InitRuns(Runs(NodeKinds, MaxNodes))

SpecAnalyzer == InitAnalyzer /\ [][NextAnalyzer]_vars

\* The tool calls among ActionKinds
ToolKinds == {kind \in ActionKinds : Truthy(Get(kind.metadata, "tool"))}

\* Runs of all kinds, and the longer runs of tool calls only, in which two
\* loops fit
InitLoops ==
  InitRuns(Runs(ActionKinds, MaxActions) \cup Runs(ToolKinds, MaxActions + 1))

SpecLoops == InitLoops /\ [][NextAnalyzer]_vars

(***************************************************************************)
(* Documents whose step array only the last fallback of                     *)
(* findStepArrayForFormat can locate: no key is a known or step-like key.   *)
(***************************************************************************)
FallbackValues ==
  { Arr(<<Whole(1), Whole(2), Whole(3)>>),
    Arr(<<R1("content", Str("x"))>>),
    Arr(<<R1("content", Str("x")), R1("content", Str("y"))>>),
    Arr(<<>>),
    Str("v"),
    R1("c", Arr(<<R1("content", Str("z"))>>)),
    R1("c", R1("d", Arr(<<R1("content", Str("w")), R1("content", Str("y"))>>))),
    R1("c", R1("d", R1("e", Arr(<<R1("content", Str("x"))>>)))) }

FallbackDocs ==
  {R1("a", v) : v \in FallbackValues}
    \cup {R2("a", v, "b", w) : v, w \in FallbackValues}

InitFallback == InitWith(FallbackDocs, {NoMapping})

SpecFallback == InitFallback /\ [][Next]_vars

(***************************************************************************)
(* parseTimestamp on its own: a value is drawn and parsed.                  *)
(***************************************************************************)
TwoDigits(n) == IF n < 10 THEN "0" \o IntStr(n) ELSE IntStr(n)

DateTexts ==
  {IntStr(y) \o "-" \o TwoDigits(m) \o "-" \o TwoDigits(d) :
     y \in {1970, 2000, 2001, 2024}, m \in {1, 2, 9, 12}, d \in {1, 9, 28}}
    \cup {"2024-02-29"}

TimestampTexts ==
  DateTexts
    \cup {t \o "T01:46:40Z" : t \in DateTexts}
    \cup {"2024-01-01T00:00:00Z", "not a date", "", "yesterday"}

TimestampNumbers ==
  {Big(lead \o zeros) :
     lead \in {"1", "17", "9"},
     zeros \in {"00000000", "000000000", "0000000000", "00000000000",
                "000000000000", "0000000000000"}}
    \cup {Big("999999999"), Big("1000000001"), Big("999999999999"), Big("1000000000001"),
          NegBig("1700000000000"), Num(0), Whole(5), Whole(0 - 1), Num(15000), NaN}

TimestampInputs ==
  TimestampNumbers \cup {Str(t) : t \in TimestampTexts}
    \cup {Null, Undef, True, Obj(<<>>), Arr(<<Whole(1)>>)}

ParseTimestamp ==
  /\ pc = "timestamp"
  /\ result' = parseTimestamp(raw)
  /\ pc' = "stamped"
  /\ UNCHANGED <<raw, mapping, run, confStep, confOut, analysis, reanalysis, replay>>

InitTimestamp ==
  /\ raw \in TimestampInputs
  /\ mapping = NoMapping
  /\ pc = "timestamp"
  /\ result = NoValue
  /\ run = NoValue
  /\ confStep = NoValue
  /\ confOut = NoValue
  /\ analysis = NoValue
  /\ reanalysis = NoValue
  /\ replay = NoReplay

SpecTimestamp == InitTimestamp /\ [][ParseTimestamp]_vars

(***************************************************************************)
(* Replay of a trace of 1..MaxReplay nodes.                                 *)
(***************************************************************************)
MaxReplay == 3

Speeds == {"0.5", "1", "2"}

Others == <<raw, mapping, pc, result, run, confStep, confOut, analysis, reanalysis>>

Mounted == replay.replayMode /\ ~replay.idle

Previous ==
  /\ Mounted
  /\ replay' = Clicked(replay, handlePrevious(replay))
  /\ UNCHANGED Others

HandleNext ==
  /\ Mounted
  /\ replay' = Clicked(replay, handleNext(replay))
  /\ UNCHANGED Others

TogglePlay ==
  /\ Mounted
  /\ replay' = Clicked(replay, togglePlay(replay))
  /\ UNCHANGED Others

SetSpeed ==
  /\ Mounted
  /\ \E speed \in Speeds \ {replay.speed} :
       replay' = Clicked(replay, [replay EXCEPT !.speed = speed])
  /\ UNCHANGED Others

\* The timer fires: goToIndex(currentIndex + 1) with the index of the render
\* that set it; the render is committed, its effect is due
Tick ==
  /\ replay.timer.armed
  /\ replay' = [goToIndex(replay, replay.timer.from + 1) EXCEPT
                  !.timer = NoTimer, !.effectDue = TRUE]
  /\ UNCHANGED Others

RunEffect ==
  /\ replay.effectDue
  /\ replay' = PlaybackEffect(replay)
  /\ UNCHANGED Others

ToggleReplayMode ==
  /\ ~replay.idle
  /\ replay' = toggleReplayMode(replay)
  /\ UNCHANGED Others

\* The user gives no further input
StopInput ==
  /\ ~replay.idle
  /\ replay' = [replay EXCEPT !.idle = TRUE]
  /\ UNCHANGED Others

NextReplay ==
  \/ Previous \/ HandleNext \/ TogglePlay \/ SetSpeed
  \/ Tick \/ RunEffect \/ ToggleReplayMode \/ StopInput

InitReplay ==
  /\ \E n \in 1..MaxReplay : replay = Unmounted(n)
  /\ raw = NoValue
  /\ mapping = NoMapping
  /\ pc = "replay"
  /\ result = NoValue
  /\ run = NoValue
  /\ confStep = NoValue
  /\ confOut = NoValue
  /\ analysis = NoValue
  /\ reanalysis = NoValue

\* Timers fire and effects run
SpecReplay ==
  InitReplay /\ [][NextReplay]_vars /\ WF_vars(Tick) /\ WF_vars(RunEffect)

(***************************************************************************)
(* Properties.                                                              *)
(***************************************************************************)
Parsed == pc \in {"parsed", "normalized"}

Succeeded == Parsed /\ ~Threw(result) /\ result.success

Nodes == result.trace.nodes

\* The step array of the uploaded document, when the document is that array
\* or holds it under one of the keys the model wraps it in
RawSteps ==
  IF raw.k = "arr" THEN raw
  ELSE IF raw.k = "obj" /\ Len(raw.o) = 1 /\ raw.o[1][2].k = "arr" THEN raw.o[1][2]
  ELSE Arr(<<>>)

IsComposite(e) ==
  Some(knownSubKeys, LAMBDA key : IsDefined(Get(e, key)))

\* A record that is not expanded: no tuple, none of the composite sub-keys
IsPlainRecord(e) == e.k = "obj" /\ ~IsComposite(e)

\* C1: parse never throws; whatever the input it returns a ParseResult; a
\* failure carries success=false, a non-empty error string and no trace; a
\* success carries a trace with at least one node.
C1_ParseIsTotal ==
  Parsed =>
    /\ ~Threw(result)
    /\ IF result.success
         THEN result.trace # Undef /\ Len(result.trace.nodes) >= 1
         ELSE result.error.k = "str" /\ result.error.s # "" /\ result.trace = Undef

\* An exception raised inside parse was turned into a failure result
C1_Witness ==
  /\ Parsed /\ ~Threw(result) /\ ~result.success
  /\ StartsWith(result.error.s, "Unexpected error during parsing: ")

IsLangChainTupleDoc ==
  /\ raw.k = "obj" /\ Keys(raw) = <<"intermediate_steps">>
  /\ Len(RawSteps.a) > 0
  /\ \A i \in 1..Len(RawSteps.a) : IsTupleWith(RawSteps.a[i], <<"tool", "action", "name", "log">>)

\* C2: each tuple [actionObj, observationValue] of intermediate_steps yields
\* exactly two nodes in order, an action node then an observation node, the
\* observation's parentId being the id of that action node in the run; the
\* action content contains the log and the observation content is the
\* observation string.
C2_TupleYieldsLinkedPair ==
  (Parsed /\ mapping = NoMapping /\ IsLangChainTupleDoc) =>
    /\ Succeeded
    /\ Len(Nodes) = 2 * Len(RawSteps.a)
    /\ \A i \in 1..Len(RawSteps.a) :
         LET act == Nodes[2 * i - 1]
             obs == Nodes[2 * i]
             tuple == RawSteps.a[i]
         IN  /\ act.type = "action"
             /\ obs.type = "observation"
             /\ Includes(act.content.s, Get(tuple.a[1], "log").s)
             /\ obs.content = tuple.a[2]
             /\ obs.parentId = Str(act.id)

\* C3: after a successful parse without custom mapping every parentId is
\* null (or left undefined, which the node model reads as no parent) or the
\* id of a node of the same run; no parentId dangles.
C3_ParentsResolve ==
  (Succeeded /\ mapping = NoMapping) =>
    \A i \in 1..Len(Nodes) :
      \/ IsNullish(Nodes[i].parentId)
      \/ \E j \in 1..Len(Nodes) : Nodes[i].parentId = Str(Nodes[j].id)

\* C4: after a successful parse the node ids are pairwise distinct.
C4_IdsDistinct ==
  Succeeded =>
    \A i \in 1..Len(Nodes) : \A j \in 1..Len(Nodes) :
      i # j => Nodes[i].id # Nodes[j].id

IsPlainRootArray ==
  /\ raw.k = "arr" /\ Len(raw.a) > 0
  /\ \A i \in 1..Len(raw.a) : IsPlainRecord(raw.a[i])

ConfField ==
  FirstIdx(confFields, LAMBDA f :
    IsPresent(Get(confStep, f)) /\ ToNumber(Get(confStep, f)) # NaN)

\* C6: every confidence extractConfidence produces lies in [0,1]; a numeric
\* input of at most 1 is kept and an input above 1 is divided by 100.
C6_ConfidenceInUnitInterval ==
  (pc = "extracted" /\ confOut # Undef /\ Get(confStep, confFields[ConfField]).k = "num") =>
    LET in == Get(confStep, confFields[ConfField]).n IN
    /\ confOut.n >= 0 /\ confOut.n <= Unit
    /\ in <= Unit => confOut.n = in
    /\ in > Unit => confOut.n * 100 = in

HasNullIn(e, field) == Get(e, field).k = "arr" /\ Some(Get(e, field).a, IsNullish)

IsMalformedRecord(e) == e.k = "obj" /\ (HasNullIn(e, "edges") \/ HasNullIn(e, "tool_calls"))

\* C7: when a single record of the step array has a malformed field (an
\* edges or tool_calls array containing null), parse still succeeds with a
\* node for every record.
C7_MalformedRecordTolerated ==
  (/\ Parsed /\ raw.k = "arr" /\ Len(raw.a) > 0
   /\ \A i \in 1..Len(raw.a) : raw.a[i].k = "obj"
   /\ Cardinality({i \in 1..Len(raw.a) : IsMalformedRecord(raw.a[i])}) = 1) =>
    /\ Succeeded
    /\ Len(Nodes) >= Len(raw.a)

\* C8: normalize always returns a run with at least one node; when parse
\* reports failure the run is exactly one node, of type system, order 0,
\* parentId null, whose content is the parse error message and whose
\* metadata carries error=true and the collected warnings.
C8_NormalizeAlwaysYieldsRun ==
  pc = "normalized" =>
    /\ ~Threw(run)
    /\ Len(run.nodes) >= 1
    /\ (~Threw(result) /\ ~result.success) =>
         /\ Len(run.nodes) = 1
         /\ run.nodes[1].type = "system"
         /\ run.nodes[1].order = Whole(0)
         /\ run.nodes[1].parentId = Null
         /\ run.nodes[1].content = result.error
         /\ Get(run.nodes[1].metadata, "error") = True
         /\ Get(run.nodes[1].metadata, "warnings") = result.warnings

\* A failed parse that had collected a warning was normalised
C8_Witness ==
  /\ pc = "normalized" /\ ~Threw(result) /\ ~result.success
  /\ Len(result.warnings.a) > 0
  /\ ~Threw(run) /\ Len(run.nodes) = 1

\* Whether every element of the step array became exactly one node
OneNodePerRecord ==
  /\ Len(RawSteps.a) > 0
  /\ \A i \in 1..Len(RawSteps.a) : IsPlainRecord(RawSteps.a[i])
  /\ Len(Nodes) = Len(RawSteps.a)

\* C9: when mapping.typeField resolves on a record to a value the synonym
\* table maps to a canonical type T other than 'other', the node's type is
\* T, even when the record's own type field holds another canonical type.
C9_MappedTypeWins ==
  (Succeeded /\ mapping.typeField # NoPath /\ OneNodePerRecord) =>
    \A i \in 1..Len(Nodes) :
      LET customType == getNestedValue(RawSteps.a[i], mapping.typeField) IN
      (Truthy(customType) /\ normalizeType(ToLower(ToStr(customType))) # "other")
        => Nodes[i].type = normalizeType(ToLower(ToStr(customType)))

\* The 0-based index of the raw element each node of the run came from
OriginOf(i) == Get(expandSteps(RawSteps, mapping)[i], "_originalIndex").n \div Unit

\* C10: for every raw record on which mapping.contentField resolves to a
\* non-null value, the node produced from that record has that value,
\* formatted as a string, as its content, whatever other fields (default
\* content fields, composite sub-keys) the record carries.
C10_MappedContentWins ==
  (/\ Succeeded /\ mapping.contentField # NoPath
   /\ Len(RawSteps.a) > 0
   /\ Len(Nodes) = Len(expandSteps(RawSteps, mapping))) =>
    \A i \in 1..Len(Nodes) :
      LET record == RawSteps.a[OriginOf(i) + 1]
          customContent == getNestedValue(record, mapping.contentField)
      IN  (record.k = "obj" /\ IsPresent(customContent))
            => Nodes[i].content = Str(formatContent(customContent))

\* A record with no content-like field, no tool name and no field besides
\* the metadata keys
IsEmptyRecord(e) ==
  /\ e.k = "obj"
  /\ KeySet(e) \subseteq {"id", "type", "timestamp", "order", "role", "source"}

\* C11: a record with no content-like field, no tool name and no remaining
\* non-metadata field ({} or a record holding only id and type) gets the
\* content "[Empty step]" and the warning "Step N: No content could be
\* extracted" in the result's warnings; no internal expansion field shows in
\* the content.
C11_EmptyRecordGetsSentinel ==
  (Succeeded /\ mapping = NoMapping /\ IsPlainRootArray) =>
    \A i \in 1..Len(raw.a) :
      IsEmptyRecord(raw.a[i]) =>
        /\ Nodes[i].content = Str(EmptyStep)
        /\ result.warnings.k = "arr"
        /\ \E w \in 1..Len(result.warnings.a) :
             result.warnings.a[w] =
               Str("Step " \o IntStr(i - 1) \o ": No content could be extracted")

\* C19: after a successful parse no node's metadata has a top-level key
\* beginning with an underscore: every internal scratch field, and any other
\* underscore-prefixed field, is removed.
C19_NoUnderscoreKeyInMetadata ==
  Succeeded =>
    \A i \in 1..Len(Nodes) :
      \A key \in KeySet(Nodes[i].metadata) : ~StartsWith(key, "_")

\* The LangChain markers of an object root as the format detector's
\* contract lists them
HasListedLangChainMarker(r) ==
  \/ IsDefined(Get(r, "langchain_version"))
  \/ IsDefined(Get(r, "lc_id"))
  \/ Get(r, "intermediate_steps").k = "arr" /\ Len(Get(r, "intermediate_steps").a) > 0
  \/ /\ Get(r, "steps").k = "arr"
     /\ Some(Get(r, "steps").a, LAMBDA st :
          \/ IsDefined(Get(st, "action")) /\ IsDefined(Get(st, "tool_input"))
          \/ IsDefined(Get(st, "observation")))

HasListedOpenAIMarker(r) ==
  \/ IsDefined(Get(r, "choices"))
  \/ Get(r, "model").k = "str" /\ StartsWith(Get(r, "model").s, "gpt")
  \/ /\ Get(r, "tool_calls").k = "arr"
     /\ Some(Get(r, "tool_calls").a, LAMBDA tc :
          IsDefined(Get(tc, "id")) /\ IsDefined(Get(tc, "function")))

\* C20: for an object root the dialect tag is fixed by strict priority:
\* langgraph iff a LangGraph marker is present; otherwise langchain iff
\* langchain_version or lc_id is present, or intermediate_steps is a
\* non-empty array, or steps is an array with an element showing the
\* action+tool_input or the observation pattern; otherwise openai iff
\* choices is present, model starts with gpt, or tool_calls has an element
\* with both id and function; otherwise generic.  No other field makes an
\* object langchain.
C20_DialectByPriority ==
  (Parsed /\ raw.k = "obj") =>
    result.detectedFormat =
      IF isLangGraphFormat(raw) THEN Str("langgraph")
      ELSE IF HasListedLangChainMarker(raw) THEN Str("langchain")
      ELSE IF HasListedOpenAIMarker(raw) THEN Str("openai")
      ELSE Str("generic")

\* C12: analyzeTrace never fails on a run produced by GenericAdapter.parse or
\* normalize, OpenAI tool_calls records whose function field is an object
\* and nodes whose tool, name or action metadata is not a string included:
\* it returns the analysed run without throwing.
C12_AnalyzeNeverFails ==
  pc = "analyzed" => ~Threw(analysis)

AnalysisDone == pc \in {"analyzed", "reanalyzed"} /\ ~Threw(analysis)

HasIssueOfType(types) ==
  \E n \in 1..Len(analysis.issues) : analysis.issues[n].type \in types

\* C13: the risk level of the run is decided by tier only: high exactly when
\* some node has the metadata-driven error indicators of hasErrorIndicators
\* or some issue has type guessing_after_error, commit_after_empty,
\* unhandled_error or error_ignored; otherwise medium exactly when some
\* issue has type suspicious_transition, loop or missing_observation;
\* otherwise low.  A node that is only pattern-labelled as an error, with
\* none of these issues and no error metadata, does not raise the level.
C13_RiskByTier ==
  AnalysisDone =>
    analysis.riskLevel =
      IF \/ \E i \in 1..Len(run.nodes) : hasErrorIndicators(run.nodes[i])
         \/ HasIssueOfType({"guessing_after_error", "commit_after_empty",
                            "unhandled_error", "error_ignored"})
        THEN "high"
      ELSE IF HasIssueOfType({"suspicious_transition", "loop", "missing_observation"})
        THEN "medium"
      ELSE "low"

\* An issue without its id
IssueView(issue) ==
  [type |-> issue.type, severity |-> issue.severity, nodeIds |-> issue.nodeIds]

IssueViews(issues) == [n \in 1..Len(issues) |-> IssueView(issues[n])]

\* C14: analyzeTrace is idempotent up to issue ids: analyzeTrace of an
\* analysed run has the same issues (type, severity, nodeIds, order), the
\* same per-node issue lists, and the same riskLevel, riskExplanation,
\* issueSummary and stats.
C14_AnalyzeIdempotent ==
  pc = "reanalyzed" =>
    /\ ~Threw(reanalysis)
    /\ IssueViews(reanalysis.issues) = IssueViews(analysis.issues)
    /\ Len(reanalysis.nodes) = Len(analysis.nodes)
    /\ \A i \in 1..Len(analysis.nodes) :
         IssueViews(reanalysis.nodes[i].issues) = IssueViews(analysis.nodes[i].issues)
    /\ reanalysis.riskLevel = analysis.riskLevel
    /\ reanalysis.riskExplanation = analysis.riskExplanation
    /\ reanalysis.issueSummary = analysis.issueSummary
    /\ reanalysis.stats = analysis.stats

\* A run with several issues, attached to its nodes, and an output node
\* carrying the risk level was analysed again
C14_Witness ==
  /\ pc = "reanalyzed"
  /\ Len(analysis.issues) >= 2
  /\ \E i \in 1..Len(analysis.nodes) :
       /\ analysis.nodes[i].type = "output"
       /\ Len(analysis.nodes[i].issues) >= 1
       /\ reanalysis.nodes[i].riskLevel = analysis.riskLevel

\* The action nodes of the analysed run, in order (node indices)
ActionNodes == IndicesOfType(run.nodes, {"action"})

\* Action nodes k and k + 1 carry the same tool name
SameTool(k) ==
  /\ Truthy(extractToolName(run.nodes[ActionNodes[k]]))
  /\ extractToolName(run.nodes[ActionNodes[k]])
       = extractToolName(run.nodes[ActionNodes[k + 1]])

\* The maximal runs lo..hi of three or more action nodes with one tool name
MaximalRuns ==
  {r \in (1..Len(ActionNodes)) \X (1..Len(ActionNodes)) :
     /\ r[2] - r[1] + 1 >= 3
     /\ \A k \in r[1]..(r[2] - 1) : SameTool(k)
     /\ r[1] = 1 \/ ~SameTool(r[1] - 1)
     /\ r[2] = Len(ActionNodes) \/ ~SameTool(r[2])}

\* The loop issue a run is to be reported with
RunView(r) ==
  [type |-> "loop",
   severity |-> IF r[2] - r[1] + 1 >= 5 THEN "error" ELSE "warning",
   nodeIds |-> [n \in 1..(r[2] - r[1] + 1) |-> run.nodes[ActionNodes[r[1] + n - 1]].id]]

LoopIssues == SelectSeq(analysis.issues, LAMBDA issue : issue.type = "loop")

\* C15: the loop issues are exactly one per maximal run of three or more
\* action nodes, consecutive among the action nodes of the run, with the same
\* tool name: each lists exactly the nodes of its run, with severity warning
\* for a run of 3 or 4 nodes and error for a run of 5 or more; a run without
\* three such action nodes has no loop issue.
C15_LoopPerMaximalRun ==
  AnalysisDone =>
    /\ Len(LoopIssues) = Cardinality(MaximalRuns)
    /\ {IssueView(LoopIssues[n]) : n \in 1..Len(LoopIssues)}
         = {RunView(r) : r \in MaximalRuns}

\* A run of five same-tool action nodes was reported as an error
C15_Witness ==
  /\ AnalysisDone
  /\ \E r \in MaximalRuns : r[2] - r[1] + 1 >= 5
  /\ Len(LoopIssues) = 1
  /\ LoopIssues[1].severity = "error"

\* Two loops of one run were reported, one issue each
C15_TwoRuns == AnalysisDone /\ Cardinality(MaximalRuns) = 2 /\ Len(LoopIssues) = 2

\* Node i of the analysed run is an empty-result observation
IsEmptyObservation(i) == deriveStepLabels(run.nodes[i]).isEmptyResult

\* Node j of the analysed run is a commit action or a success output
CommitsOrClaims(j) ==
  \/ deriveStepLabels(run.nodes[j]).isCommitAction
  \/ run.nodes[j].type = "output" /\ deriveStepLabels(run.nodes[j]).isSuccessOutput

\* The positions after i of a commit action or a success output
LaterCommits(i) == {j \in (i + 1)..Len(run.nodes) : CommitsOrClaims(j)}

\* The commit_after_empty issues whose first node is node i
CommitIssuesOf(i) ==
  {n \in 1..Len(analysis.issues) :
     /\ analysis.issues[n].type = "commit_after_empty"
     /\ analysis.issues[n].nodeIds[1] = run.nodes[i].id}

\* C16: for every empty-result observation at position i there is a
\* commit_after_empty issue exactly when some node at a later position, at
\* any distance, is a commit action or a success output; there is then
\* exactly one issue for the observation, of severity error, referencing the
\* observation and the first such later node, and the risk level of the
\* analysed run is high.  No other node has such an issue.
C16_CommitAfterEmpty ==
  AnalysisDone =>
    \A i \in 1..Len(run.nodes) :
      IF IsEmptyObservation(i) /\ LaterCommits(i) # {}
        THEN /\ Cardinality(CommitIssuesOf(i)) = 1
             /\ \A n \in CommitIssuesOf(i) :
                  /\ analysis.issues[n].severity = "error"
                  /\ analysis.issues[n].nodeIds
                       = <<run.nodes[i].id,
                           run.nodes[CHOOSE j \in LaterCommits(i) :
                                       \A m \in LaterCommits(i) : j <= m].id>>
             /\ analysis.riskLevel = "high"
        ELSE CommitIssuesOf(i) = {}

\* An empty result was followed, two nodes later, by the first commit action
\* or success output, and the issue was raised
C16_Witness ==
  /\ AnalysisDone
  /\ Len(run.nodes) >= 3
  /\ IsEmptyObservation(1)
  /\ LaterCommits(1) = {3}
  /\ CommitIssuesOf(1) # {}

\* The issue names the node id among its nodeIds
References(issue, id) == \E m \in 1..Len(issue.nodeIds) : issue.nodeIds[m] = id

\* C17: after analyzeTrace the issues list of each node holds exactly the
\* detected issues whose nodeIds include the id of the node, each of them
\* once and in detection order; a node no issue references has an empty list.
C17_NodeIssuesOnce ==
  AnalysisDone =>
    \A i \in 1..Len(analysis.nodes) :
      analysis.nodes[i].issues
        = SelectSeq(analysis.issues,
                    LAMBDA issue : References(issue, analysis.nodes[i].id))

\* parse succeeded and the run it produced was analysed
PipelineDone == pc = "analyzed" /\ ~Threw(run) /\ ~Threw(analysis)

\* C18: after analyzeTrace of a run produced by parse, every node of type
\* output has the risk level of the run, and no node of another type has a
\* risk level.
C18_RiskOnOutputsOnly ==
  PipelineDone =>
    \A i \in 1..Len(analysis.nodes) :
      IF analysis.nodes[i].type = "output"
        THEN /\ "riskLevel" \in DOMAIN analysis.nodes[i]
             /\ analysis.nodes[i].riskLevel = analysis.riskLevel
        ELSE "riskLevel" \notin DOMAIN analysis.nodes[i]

\* A parsed run with an output node and a node of another type was analysed
C18_Witness ==
  /\ PipelineDone
  /\ \E i, j \in 1..Len(analysis.nodes) :
       /\ analysis.nodes[i].type = "output"
       /\ analysis.nodes[i].riskLevel = analysis.riskLevel
       /\ analysis.nodes[j].type # "output"

\* The issues of the given type whose first node is node i
IssuesAbout(type, i) ==
  {n \in 1..Len(analysis.issues) :
     /\ analysis.issues[n].type = type
     /\ analysis.issues[n].nodeIds[1] = run.nodes[i].id}

\* C24: empty_result and commit_after_empty never both report the same
\* empty-result observation: an observation that is the first node of a
\* commit_after_empty issue is the first node of no empty_result issue.
C24_EmptyReportedOnce ==
  AnalysisDone =>
    \A i \in 1..Len(run.nodes) :
      IssuesAbout("commit_after_empty", i) # {} => IssuesAbout("empty_result", i) = {}

\* C25: there is an error_ignored issue for node i exactly when node i is an
\* error-labelled observation, node i + 1 is an action and the tool name
\* extracted for node i + 1 differs from the one extracted for node i; equal
\* extracted names, also when neither node has one, are a retry without an
\* issue.
C25_ErrorIgnoredIffOtherTool ==
  AnalysisDone =>
    \A i \in 1..Len(run.nodes) :
      IssuesAbout("error_ignored", i) # {}
        <=> /\ i < Len(run.nodes)
            /\ deriveStepLabels(run.nodes[i]).isErrorObservation
            /\ run.nodes[i + 1].type = "action"
            /\ extractToolName(run.nodes[i + 1]) # extractToolName(run.nodes[i])

\* Node i is an action whose tool name holds one of toolsNeedingArgs and
\* whose tool input is absent or an empty object
NeedsArguments(i) ==
  /\ run.nodes[i].type = "action"
  /\ extractToolName(run.nodes[i]).k = "str"
  /\ \E n \in 1..Len(toolsNeedingArgs) :
       Includes(ToLower(extractToolName(run.nodes[i]).s), toolsNeedingArgs[n])
  /\ \/ IsNullish(extractToolInput(run.nodes[i]))
     \/ /\ extractToolInput(run.nodes[i]).k = "obj"
        /\ KeyCount(extractToolInput(run.nodes[i])) = 0

\* C26: every action node whose tool name contains one of search, query,
\* fetch, get, post, api, call and whose tool input is absent or an empty
\* object has a suspicious_transition issue about its missing arguments,
\* wherever it stands, also as the last node or directly before an output.
C26_MissingArgumentsAnywhere ==
  AnalysisDone =>
    \A i \in 1..Len(run.nodes) :
      NeedsArguments(i) =>
        \E n \in 1..Len(analysis.issues) :
          /\ analysis.issues[n].type = "suspicious_transition"
          /\ analysis.issues[n].nodeIds = <<run.nodes[i].id>>

OnlyFallbackApplies(r) ==
  /\ r.k = "obj"
  /\ \A key \in KeySet(r) :
       /\ ~StepLikeKey(key)
       /\ \A n \in 1..Len(KNOWN_STEP_ARRAY_KEYS) :
            /\ key # KNOWN_STEP_ARRAY_KEYS[n]
            /\ Get(r, key).k = "obj" => ~HasKey(Get(r, key), KNOWN_STEP_ARRAY_KEYS[n])

\* The arrays within nesting depth 3 of raw whose first element is an object
ObjectArrays ==
  {n \in 1..Len(findAllArrays(raw, "", 3)) :
     /\ Len(findAllArrays(raw, "", 3)[n].items.a) > 0
     /\ findAllArrays(raw, "", 3)[n].items.a[1].k = "obj"}

\* C21: when only the last fallback applies, the locator returns the longest
\* of the arrays within nesting depth 3 whose first element is an object,
\* and fails only when there is no such array.
C21_LongestObjectArray ==
  (Parsed /\ mapping = NoMapping /\ OnlyFallbackApplies(raw)) =>
    IF ObjectArrays = {}
      THEN ~result.success
      ELSE /\ result.success
           /\ \E n \in ObjectArrays :
                /\ result.arrayPath = Str(findAllArrays(raw, "", 3)[n].path)
                /\ Len(Nodes) = Len(findAllArrays(raw, "", 3)[n].items.a)
                /\ \A m \in ObjectArrays :
                     Len(findAllArrays(raw, "", 3)[m].items.a)
                       <= Len(findAllArrays(raw, "", 3)[n].items.a)

\* The sub-keys present in the record
PresentSubKeys(record) ==
  {knownSubKeys[n] : n \in {m \in 1..Len(knownSubKeys) : IsDefined(Get(record, knownSubKeys[m]))}}

\* The document is a root array of one composite record that carries an id
IsCompositeWithId ==
  /\ raw.k = "arr" /\ Len(raw.a) = 1
  /\ raw.a[1].k = "obj"
  /\ Get(raw.a[1], "id").k = "str"
  /\ PresentSubKeys(raw.a[1]) # {}

\* C22: a composite record that carries an id is split into one node per
\* present sub-key, and the id of every such node is the id of the record
\* followed by a suffix for the sub-key, so that the nodes of one record
\* share a base id.
C22_SubStepIdsShareBase ==
  (Succeeded /\ mapping = NoMapping /\ IsCompositeWithId) =>
    /\ Len(Nodes) = Cardinality(PresentSubKeys(raw.a[1]))
    /\ \A i \in 1..Len(Nodes) :
         \E key \in PresentSubKeys(raw.a[1]) :
           Nodes[i].id = Get(raw.a[1], "id").s \o "-" \o key

\* The document parse works on: raw, or what JSON.parse makes of the text
Document == IF raw.k = "str" THEN JSONParse(raw.s) ELSE raw

\* parse reaches the search for the step array, and the search finds none
NoStepArray ==
  /\ ~IsNullish(raw)
  /\ ~IsThrow(Document)
  /\ ~IsThrow(detectFormatStrict(Document))
  /\ LET found == findStepArrayForFormat(Document, detectFormatStrict(Document).s,
                                         mapping.stepsPath) IN
     found.steps.k # "arr" \/ Len(found.steps.a) = 0

\* C23: when parse fails because no step array can be located, it returns
\* success = false without throwing, and the error text lists the keys that
\* were searched, lists the top-level keys of the document, and contains
\* "Custom Mapping".
C23_NotFoundIsActionable ==
  (Parsed /\ NoStepArray) =>
    /\ ~Threw(result)
    /\ result.success = FALSE
    /\ result.error.k = "str"
    /\ \A n \in 1..Len(KNOWN_STEP_ARRAY_KEYS) :
         Includes(result.error.s, KNOWN_STEP_ARRAY_KEYS[n])
    /\ Document.k = "obj" =>
         \A key \in KeySet(Document) :
           Includes(result.error.s, "Available keys: ")
             /\ Includes(result.error.s, key)
    /\ Includes(result.error.s, "Custom Mapping")

\* {"unrelated_key": "value"} was parsed and refused with its key in the text
C23_Witness ==
  /\ Parsed
  /\ NoStepArray
  /\ raw = R1("unrelated_key", Str("value"))
  /\ result.success = FALSE
  /\ Includes(result.error.s, "Available keys: unrelated_key")

\* C28: no raw step record is emitted twice: when the step array located is
\* `steps`, its first record yields the nodes of its own expansion only, and
\* no separate initial-thought node is made of it.
C28_NoRecordEmittedTwice ==
  (Succeeded /\ raw.k = "obj" /\ result.arrayPath = Str("steps")) =>
    /\ \A i \in 1..Len(Nodes) : Nodes[i].id # "initial-thought"
    /\ Len(SelectSeq(Nodes, LAMBDA node : node.id # "final-output"))
         = Len(expandSteps(Get(raw, "steps"), mapping))

\* The whole number of the digits is above 10^exp
AbovePowerOfTen(digits, exp) ==
  \/ Len(digits) > exp + 1
  \/ Len(digits) = exp + 1 /\ \E i \in 1..Len(digits) :
       CharAt(digits, i) # (IF i = 1 THEN "1" ELSE "0")

\* The epoch milliseconds of the dates of DateTexts, counted in days
DayNumber ==
  [t \in {"1970-01-01", "1970-01-09", "2000-01-01", "2001-09-09", "2024-01-01",
          "2024-02-29"} |->
     CASE t = "1970-01-01" -> 0
       [] t = "1970-01-09" -> 8
       [] t = "2000-01-01" -> 10957
       [] t = "2001-09-09" -> 11574
       [] t = "2024-01-01" -> 19723
       [] t = "2024-02-29" -> 19782]

\* C27: parseTimestamp never throws and gives epoch milliseconds: a number
\* above 1e12 unchanged, a number above 1e9 and not above 1e12 times 1000,
\* undefined for every other number, the time of the date for a text,
\* undefined for a text that is no date, and undefined for any other type.
C27_TimestampToMillis ==
  pc = "stamped" =>
    /\ ~IsThrow(result)
    /\ IsBig(raw) /\ ~raw.neg /\ AbovePowerOfTen(raw.digits, 12) => result = raw
    /\ IsBig(raw) /\ ~raw.neg /\ AbovePowerOfTen(raw.digits, 9)
         /\ ~AbovePowerOfTen(raw.digits, 12) => result = Big(raw.digits \o "000")
    /\ raw.k \in {"num", "nan"}
         /\ (IsBig(raw) => raw.neg \/ ~AbovePowerOfTen(raw.digits, 9)) => result = Undef
    /\ raw.k = "str" /\ raw.s \in DOMAIN DayNumber =>
         result = MillisOfSeconds(DayNumber[raw.s] * 86400)
    /\ raw.k = "str" =>
         result = Undef <=> ~(\/ IsIsoDate(raw.s) /\ DateGetTime(raw.s) # NaN
                              \/ Len(raw.s) = 20 /\ DateGetTime(raw.s) # NaN)
    /\ raw.k \notin {"num", "nan", "str"} => result = Undef

\* Epoch seconds were taken to milliseconds
C27_Witness ==
  /\ pc = "stamped"
  /\ raw = Big("1700000000")
  /\ result = Big("1700000000000")

\* The text 2001-09-09T01:46:40Z gave 10^12 milliseconds
C27_DateWitness ==
  /\ pc = "stamped"
  /\ raw = Str("2001-09-09T01:46:40Z")
  /\ result = Big(Millis)

\* C30: under any interleaving of previous, next, play and pause, speed
\* changes and timer ticks on a trace of n >= 1 nodes, only indices in
\* 0..n-1 are passed to onIndexChange; a timer tick advances the index by
\* exactly one; toggling play at the last step restarts from index 0; and
\* once the controller plays and the user gives no further input, the index
\* reaches n-1 and isPlaying becomes false.
C30_ReplayStaysInRange ==
  /\ [](replay.passed \subseteq 0..(replay.n - 1) /\ replay.currentIndex \in 0..(replay.n - 1))
  /\ [][Tick => replay'.currentIndex = replay.currentIndex + 1]_vars
  /\ [][(TogglePlay /\ replay.currentIndex = replay.n - 1)
          => (replay'.currentIndex = 0 /\ 0 \in replay'.passed)]_vars
  /\ (replay.idle /\ replay.replayMode /\ replay.isPlaying)
       ~> (replay.currentIndex = replay.n - 1 /\ ~replay.isPlaying)

\* The controller played a trace of three nodes to its end without input
C30_Witness ==
  /\ replay.n = 3
  /\ replay.idle
  /\ replay.replayMode
  /\ replay.currentIndex = 2
  /\ replay.passed = {1, 2}
  /\ ~replay.isPlaying
  /\ ~replay.effectDue

====
